------------------------------ MODULE ReadsProofs ------------------------------
(***************************************************************************)
(* Proofs about ArticleReads.  Its steps are steps of Editorial or leave   *)
(* the tables alone, so that all that is proved of Editorial holds here    *)
(* too; on that rest the proofs about what readers are shown.              *)
(***************************************************************************)
EXTENDS ArticleReads, EditorialProofs

USE EditorialAssumption

AskedTyped == asked \in [Requests -> Call \cup {NoCall}]

LEMMA AskedNext == ASSUME AskedTyped, [ReadsNext]_rvars PROVE AskedTyped'
BY DEF AskedTyped, ReadsNext, rvars, views, CreateStamped, Request, Begin, End, Refuse,
       Load, Lock, RollBack, CommitStamped, Refresh, Poll, BeginPoll, TickUnpolled,
       ReadArticle, ReadPublic

LEMMA StepIsStep == ASSUME AskedTyped, [ReadsNext]_rvars PROVE [Next]_vars
<1>1. CASE UNCHANGED rvars
  BY <1>1 DEF rvars
<1>2. CASE \E a \in Articles, u \in Users : CreateStamped(a, u)
  BY <1>2 DEF CreateStamped, Next
<1>3. CASE \E r \in Requests : Request(r)
  <2> PICK r \in Requests : Request(r)
    BY <1>3
  <2>1. CASE Load(r)
    <3>1. asked[r] \in Call
      BY <2>1 DEF Load, AskedTyped
    <3>2. QED BY <2>1, <3>1 DEF Load, Next, Handle
  <2>2. CASE Lock(r) \/ RollBack(r) \/ CommitStamped(r)
    BY <2>2 DEF Lock, RollBack, CommitStamped, Next, Handle
  <2>3. CASE UNCHANGED vars
    BY <2>3
  <2>4. QED BY <2>1, <2>2, <2>3 DEF Request, Begin, Refuse, Refresh
<1>4. CASE \E s \in Schedulers : Poll(s)
  <2> PICK s \in Schedulers : Poll(s)
    BY <1>4
  <2>1. CASE SelectSome(s) \/ PublishDue(s) \/ AbortBatch(s)
    BY <2>1 DEF Next, Schedule
  <2>2. CASE UNCHANGED vars
    BY <2>2
  <2>3. QED BY <2>1, <2>2 DEF Poll, BeginPoll
<1>5. CASE TickUnpolled
  BY <1>5 DEF TickUnpolled, Next
<1>6. CASE (\E q \in Readers : ReadArticle(q)) \/ (\E a \in Articles : ReadPublic(a))
  BY <1>6 DEF ReadArticle, ReadPublic
<1>7. QED BY <1>1, <1>2, <1>3, <1>4, <1>5, <1>6 DEF ReadsNext

LEMMA AskedInvariant == ReadsSpec => []AskedTyped
<1>1. ReadsInit => AskedTyped
  BY DEF ReadsInit, AskedTyped
<1>2. QED BY <1>1, AskedNext, PTL DEF ReadsSpec

(* Everything clients read is read from the tables of Editorial: whatever  *)
(* is proved of the workflow holds while it is being watched.              *)
THEOREM ReadsAreEditorial == ReadsSpec => Spec
<1>1. ReadsInit => Init
  BY DEF ReadsInit
<1>2. AskedTyped /\ [ReadsNext]_rvars => [Next]_vars
  BY StepIsStep
<1>3. QED BY <1>1, <1>2, AskedInvariant, PTL DEF ReadsSpec, Spec

(* What publish_article and publish_due_articles bring about is no         *)
(* different under the transaction starts and readers added here: an       *)
(* article is published once, with a text that an editor approved.         *)
THEOREM PublicationWatched == ReadsSpec => [](PublishedOnce /\ PublicIsApproved)
BY ReadsAreEditorial, PublicationHappensOnce, OnlyApprovedIsPublic, PTL

(* What of the workflow the proofs below use                               *)
Base == SInv /\ AskedTyped /\ RevisionLedger /\ EditsCompose /\ OneEvent /\ PublicIsApproved

LEMMA BaseInvariant == ReadsSpec => []Base
BY ReadsAreEditorial, AskedInvariant, BlankInvariant, EveryRevisionRecorded, NoEditLost,
   OneEventInvariant, OnlyApprovedIsPublic, PTL DEF Base

-----------------------------------------------------------------------------
(***************************************************************************)
(* RevisionNamesState                                                      *)
(***************************************************************************)
LEMMA Grown ==
  ASSUME SInv, [Next]_vars, NEW a \in Articles
  PROVE  /\ row[a] \in Row /\ row[a].revision \in Nat
         /\ row'[a] = row[a] \/ row'[a].revision = row[a].revision + 1
<1>1. row[a] \in Row /\ row[a].revision \in Nat
  BY DEF SInv, LInv, IInv, TypeOK, Row
<1>2. CASE Kept(a)
  BY <1>1, <1>2 DEF Kept
<1>3. CASE Created(a) \/ Rewritten(a) \/ Turned(a)
  BY <1>1, <1>3 DEF Created, Rewritten, Turned, SInv, Blank, NoRow, Exists
<1>4. QED BY <1>1, <1>2, <1>3, StepShape DEF SInv

LEMMA NamesKept ==
  ASSUME SInv, [Next]_vars, NEW a \in Articles, NEW x \in Row, Names(x, a)
  PROVE  Names(x, a)'
<1>1. x.revision \in Nat
  BY DEF Row
<1>2. QED BY <1>1, Grown DEF Names

Texts == UNION {[D -> Text] : D \in SUBSET Nat}
Reading == [step : 0..3, article : Articles, row : Row, texts : Texts,
           history : Seq(HistoryEntry)]
Detail == {x \in Reading : x.step \in 1..3}
Replied == [article : Articles, wrote : Row]

ViewsTyped ==
  /\ reply \in [Requests -> Replied \cup {NoReply}]
  /\ answer \in [Readers -> Detail \cup {NoAnswer}]

LEMMA StoredTexts ==
  ASSUME SInv, NEW a \in Articles
  PROVE  versions[a] \in Texts /\ history[a] \in Seq(HistoryEntry) /\ row[a] \in Row
<1>1. DOMAIN versions[a] \in SUBSET Nat /\ versions[a] \in [DOMAIN versions[a] -> Text]
  BY DEF SInv, LInv, IInv, TypeOK
<1>2. QED BY <1>1 DEF Texts, SInv, LInv, IInv, TypeOK

(* What one statement of a reader adds to what it has                      *)
LEMMA FetchedFields ==
  ASSUME SInv, NEW x \in Reading, x.step \in 0..2,
         NEW what \in {"article", "versions", "history"}
  PROVE  LET y == Fetched(x, what)
             a == x.article
         IN /\ y \in Reading /\ y.step = x.step + 1 /\ y.article = a
            /\ y.row = (IF what = "article" THEN row[a] ELSE x.row)
            /\ y.texts = (IF what = "versions" THEN versions[a] ELSE x.texts)
            /\ y.history = (IF what = "history" THEN history[a] ELSE x.history)
<1> DEFINE a == x.article
<1>1. a \in Articles /\ x.step + 1 \in 0..3
  BY DEF Reading
<1>2. row[a] \in Row /\ versions[a] \in Texts /\ history[a] \in Seq(HistoryEntry)
  BY <1>1, StoredTexts
<1> HIDE DEF Texts
<1>3. CASE what = "article"
  BY <1>1, <1>2, <1>3 DEF Fetched, Reading
<1>4. CASE what = "versions"
  BY <1>1, <1>2, <1>4 DEF Fetched, Reading
<1>5. CASE what = "history"
  BY <1>1, <1>2, <1>5 DEF Fetched, Reading
<1>6. QED BY <1>3, <1>4, <1>5

LEMMA StatementsAre ==
  Statements[1] = "article" /\ Statements[2] = "versions" /\ Statements[3] = "history"
BY DEF Statements

(* The four steps of a reader: the three statements of a detail, its end   *)
Looked(q, a) == /\ Exists(a)
                /\ answer'[q].step = 1
                /\ answer'[q].article = a /\ answer'[q].row = row[a]

Continued(q) ==
  LET x == answer[q]
      y == answer'[q]
      a == x.article
  IN /\ x \in Detail
     /\ y.article = a /\ y.row = x.row
     /\ \/ x.step = 1 /\ y.step = 2 /\ y.texts = versions[a]
        \/ x.step = 2 /\ y.step = 3 /\ y.texts = x.texts /\ y.history = history[a]

LEMMA ReadShape ==
  ASSUME SInv, ViewsTyped, NEW q \in Readers, ReadArticle(q)
  PROVE  /\ answer' \in [Readers -> Detail \cup {NoAnswer}]
         /\ \A p \in Readers \ {q} : answer'[p] = answer[p]
         /\ \/ \E a \in Articles : Looked(q, a)
            \/ Continued(q)
            \/ answer'[q] = NoAnswer
<1>1. CASE /\ answer[q] = NoAnswer
           /\ \E a \in Articles :
                /\ Exists(a)
                /\ answer' = [answer EXCEPT ![q] =
                     Fetched([step |-> 0, article |-> a, row |-> NoRow, texts |-> <<>>,
                              history |-> <<>>], Statements[1])]
  <2> PICK a \in Articles : /\ Exists(a)
        /\ answer' = [answer EXCEPT ![q] =
             Fetched([step |-> 0, article |-> a, row |-> NoRow, texts |-> <<>>,
                      history |-> <<>>], Statements[1])]
    BY <1>1
  <2> DEFINE x == [step |-> 0, article |-> a, row |-> NoRow, texts |-> <<>>,
                   history |-> <<>>]
             y == Fetched(x, "article")
  <2>1. <<>> \in Texts
    <3>1. <<>> \in [{} -> Text] /\ {} \in SUBSET Nat
      OBVIOUS
    <3>2. QED BY <3>1 DEF Texts
  <2>2. x \in Reading /\ x.step = 0 /\ x.article = a
    BY <2>1, NoRowTyped DEF Reading
  <2>3. answer' = [answer EXCEPT ![q] = y]
    BY StatementsAre
  <2> HIDE DEF x
  <2>4. y \in Reading /\ y.step = 1 /\ y.article = a /\ y.row = row[a]
    BY <2>2, FetchedFields
  <2> HIDE DEF y
  <2>5. QED BY <2>3, <2>4 DEF ViewsTyped, Looked, Detail
<1>2. CASE /\ answer[q].step \in 1..2
           /\ answer' = [answer EXCEPT ![q] =
                Fetched(answer[q], Statements[answer[q].step + 1])]
  <2> DEFINE x == answer[q]
             y == Fetched(x, Statements[x.step + 1])
  <2>1. x \in Detail /\ x \in Reading
    BY <1>2 DEF ViewsTyped, NoAnswer, Detail
  <2>2. answer' = [answer EXCEPT ![q] = y]
    BY <1>2
  <2>3. CASE x.step = 1
    <3>1. y = Fetched(x, "versions")
      BY <2>3, StatementsAre
    <3>2. /\ y \in Detail /\ y.article = x.article /\ y.row = x.row /\ y.step = 2
          /\ y.texts = versions[x.article]
      BY <2>1, <2>3, <3>1, FetchedFields DEF Detail
    <3> HIDE DEF y
    <3>3. QED BY <2>1, <2>2, <2>3, <3>2 DEF ViewsTyped, Continued
  <2>4. CASE x.step = 2
    <3>1. y = Fetched(x, "history")
      BY <2>4, StatementsAre
    <3>2. /\ y \in Detail /\ y.article = x.article /\ y.row = x.row /\ y.step = 3
          /\ y.texts = x.texts /\ y.history = history[x.article]
      BY <2>1, <2>4, <3>1, FetchedFields DEF Detail
    <3> HIDE DEF y
    <3>3. QED BY <2>1, <2>2, <2>4, <3>2 DEF ViewsTyped, Continued
  <2>5. QED BY <1>2, <2>3, <2>4
<1>3. CASE answer' = [answer EXCEPT ![q] = NoAnswer]
  BY <1>3 DEF ViewsTyped
<1>4. QED BY <1>1, <1>2, <1>3 DEF ReadArticle

LEMMA ReplyShape ==
  ASSUME Base, SInv', ViewsTyped, [ReadsNext]_rvars
  PROVE  /\ reply' \in [Requests -> Replied \cup {NoReply}]
         /\ \A r \in Requests :
              \/ reply'[r] = reply[r]
              \/ reply'[r] = NoReply
              \/ \E a \in Articles : reply'[r].article = a /\ reply'[r].wrote = row'[a]
<1>1. CASE UNCHANGED reply
  BY <1>1 DEF ViewsTyped
<1>2. CASE \E r \in Requests : Refresh(r)
  BY <1>2 DEF Refresh, ViewsTyped
<1>3. CASE \E r \in Requests : CommitStamped(r)
  <2> PICK r \in Requests : CommitStamped(r)
    BY <1>3
  <2> DEFINE a == call[r].article
  <2>1. Commit(r) /\ reply' = [reply EXCEPT ![r] = [article |-> a, wrote |-> row'[a]]]
    BY DEF CommitStamped
  <2>2. a \in Articles
    BY <2>1, CommitStep DEF Base, SInv, LInv
  <2>3. row'[a] \in Row
    BY <2>2 DEF SInv, LInv, IInv, TypeOK
  <2> HIDE DEF a
  <2>4. QED BY <2>1, <2>2, <2>3 DEF ViewsTyped, Replied
<1>4. QED
  BY <1>1, <1>2, <1>3 DEF ReadsNext, rvars, views, CreateStamped, Request, Begin, End,
     Refuse, Load, Lock, RollBack, Poll, BeginPoll, TickUnpolled, ReadArticle, ReadPublic

LEMMA AnswerShape ==
  ASSUME Base, ViewsTyped, [ReadsNext]_rvars
  PROVE  /\ answer' \in [Readers -> Detail \cup {NoAnswer}]
         /\ \A q \in Readers :
              \/ answer'[q] = answer[q]
              \/ answer'[q] = NoAnswer
              \/ UNCHANGED vars /\ ((\E a \in Articles : Looked(q, a)) \/ Continued(q))
<1>1. CASE UNCHANGED answer
  BY <1>1 DEF ViewsTyped
<1>2. CASE \E q \in Readers : ReadArticle(q)
  <2> PICK q \in Readers : ReadArticle(q)
    BY <1>2
  <2>1. UNCHANGED vars
    BY DEF ReadArticle
  <2>2. QED BY <2>1, ReadShape DEF Base
<1>3. QED
  BY <1>1, <1>2 DEF ReadsNext, rvars, views, CreateStamped, Request, Begin, End, Refuse,
     Load, Lock, RollBack, CommitStamped, Refresh, Poll, BeginPoll, TickUnpolled, ReadPublic

LEMMA ViewsInvariant == ReadsSpec => []ViewsTyped
<1>1. ReadsInit => ViewsTyped
  BY DEF ReadsInit, ViewsTyped
<1>2. Base /\ Base' /\ ViewsTyped /\ [ReadsNext]_rvars => ViewsTyped'
  BY ReplyShape, AnswerShape DEF ViewsTyped, Base
<1>3. QED BY <1>1, <1>2, BaseInvariant, PTL DEF ReadsSpec

LEMMA RevisionNamesNext ==
  ASSUME Base, SInv', ViewsTyped, RevisionNamesState, [ReadsNext]_rvars
  PROVE  RevisionNamesState'
<1>1. [Next]_vars
  BY StepIsStep DEF Base
<1>2. ASSUME NEW r \in Requests, reply'[r] # NoReply, NEW x, NEW a,
             x = reply'[r].wrote, a = reply'[r].article
      PROVE  Names(x, a)'
  <2>1. CASE reply'[r] = reply[r]
    <3>1. x \in Row /\ a \in Articles
      BY <1>2, <2>1 DEF ViewsTyped, Replied
    <3>2. Names(x, a)
      BY <1>2, <2>1 DEF RevisionNamesState
    <3>3. QED BY <1>1, <3>1, <3>2, NamesKept DEF Base
  <2>2. CASE a \in Articles /\ x = row'[a]
    <3>1. x.revision \in Nat
      BY <2>2 DEF SInv, LInv, IInv, TypeOK, Row
    <3>2. QED BY <2>2, <3>1 DEF Names
  <2>3. QED BY <1>2, <2>1, <2>2, ReplyShape
<1>3. ASSUME NEW q \in Readers, answer'[q] # NoAnswer, NEW x, NEW a,
             x = answer'[q].row, a = answer'[q].article
      PROVE  Names(x, a)'
  <2>1. CASE answer[q] # NoAnswer /\ x = answer[q].row /\ a = answer[q].article
    <3>1. x \in Row /\ a \in Articles
      BY <2>1 DEF ViewsTyped, Detail, Reading
    <3>2. Names(x, a)
      BY <2>1 DEF RevisionNamesState
    <3>3. QED BY <1>1, <3>1, <3>2, NamesKept DEF Base
  <2>2. CASE a \in Articles /\ x = row'[a]
    <3>1. x.revision \in Nat
      BY <2>2 DEF SInv, LInv, IInv, TypeOK, Row
    <3>2. QED BY <2>2, <3>1 DEF Names
  <2>3. CASE answer'[q] = answer[q]
    BY <1>3, <2>1, <2>3
  <2>4. CASE UNCHANGED vars /\ Continued(q)
    <3>1. answer[q] # NoAnswer
      BY <2>4 DEF Continued, Detail, NoAnswer
    <3>2. QED BY <1>3, <2>1, <2>4, <3>1 DEF Continued
  <2>5. CASE UNCHANGED vars /\ \E b \in Articles : Looked(q, b)
    BY <1>3, <2>2, <2>5 DEF Looked, vars, tables
  <2>6. QED BY <1>3, <2>3, <2>4, <2>5, AnswerShape
<1>4. QED BY <1>2, <1>3 DEF RevisionNamesState, Names

(* A revision names one state of an article, for every reader and for the  *)
(* answer to every change, which is read after its commit.                 *)
THEOREM RevisionsNameStates == ReadsSpec => []RevisionNamesState
<1>1. ReadsInit => RevisionNamesState
  BY DEF ReadsInit, RevisionNamesState
<1>2. Base /\ Base' /\ ViewsTyped /\ RevisionNamesState /\ [ReadsNext]_rvars => RevisionNamesState'
  BY RevisionNamesNext DEF Base
<1>3. QED BY <1>1, <1>2, BaseInvariant, ViewsInvariant, PTL DEF ReadsSpec

-----------------------------------------------------------------------------
(***************************************************************************)
(* OnePublicText                                                           *)
(***************************************************************************)
HistoryKept(a) == /\ Len(history[a]) \in Nat /\ DOMAIN history[a] = 1..Len(history[a])
                  /\ Len(history'[a]) \in Nat /\ DOMAIN history'[a] = 1..Len(history'[a])
                  /\ Len(history[a]) <= Len(history'[a])
                  /\ \A i \in DOMAIN history[a] :
                       i \in DOMAIN history'[a] /\ history'[a][i] = history[a][i]

LEMMA HistoryGrows ==
  ASSUME SInv, [Next]_vars, NEW a \in Articles  PROVE HistoryKept(a)
<1>1. CASE Kept(a)
  <2>1. history[a] \in Seq(HistoryEntry) /\ history'[a] = history[a]
    BY <1>1 DEF Kept, SInv, LInv, IInv, TypeOK
  <2>2. Len(history[a]) \in Nat /\ DOMAIN history[a] = 1..Len(history[a])
    BY <2>1
  <2>3. QED BY <2>1, <2>2 DEF HistoryKept
<1>2. CASE \E type : \E e \in HistoryEntry : Recorded(a, type, e)
  <2> PICK type, e : Recorded(a, type, e)
    BY <1>2
  <2> DEFINE h == Len(history[a])
  <2>1. /\ h \in Nat /\ DOMAIN history[a] = 1..h
        /\ Len(history'[a]) = h + 1 /\ DOMAIN history'[a] = DOMAIN history[a] \cup {h + 1}
        /\ \A i \in DOMAIN history[a] : history'[a][i] = history[a][i]
    BY RecordedOnce DEF SInv, LInv, IInv
  <2> HIDE DEF h
  <2>2. 1..h \cup {h + 1} = 1..(h + 1) /\ h + 1 \in Nat /\ h <= h + 1
    BY <2>1
  <2>3. QED BY <2>1, <2>2 DEF HistoryKept, h
<1>3. QED BY <1>1, <1>2, StepShape DEF SInv, Created, Rewritten, Turned

Approved(a, v) == \E i \in DOMAIN history[a] :
                    /\ history[a][i].action = "approved" /\ history[a][i].version = v
                    /\ history[a][i].actor \in Editors

(* What was ever shown of an article is its published version, which never *)
(* changes once it is set                                                  *)
ShownIsPublished ==
  \A a \in Articles : \A v \in shown[a] :
    v = row[a].published /\ v # Null /\ Approved(a, v)

LEMMA PublishedStays ==
  ASSUME SInv, OneEvent, [Next]_vars, NEW a \in Articles, row[a].published # Null
  PROVE  row'[a].published = row[a].published
<1>1. row[a].status \in ShownStatuses
  BY DEF OneEvent
<1>2. QED
  BY <1>1, StepShape DEF SInv, Kept, Created, Rewritten, Turned, Legal, ShownStatuses, Editable

LEMMA ShownNext ==
  ASSUME Base, ShownIsPublished, shown = [a \in Articles |-> shown[a]], [ReadsNext]_rvars
  PROVE  ShownIsPublished' /\ shown' = [a \in Articles |-> shown'[a]]
<1>1. [Next]_vars
  BY StepIsStep DEF Base
<1>2. CASE UNCHANGED shown
  <2>1. ASSUME NEW a \in Articles, NEW v \in shown[a]
        PROVE  v = row'[a].published /\ v # Null /\ Approved(a, v)'
    <3>1. v = row[a].published /\ v # Null /\ Approved(a, v)
      BY <2>1 DEF ShownIsPublished
    <3>2. v = row'[a].published
      BY <1>1, <3>1, PublishedStays DEF Base
    <3>3. Approved(a, v)'
      BY <1>1, <3>1, HistoryGrows DEF Base, HistoryKept, Approved
    <3>4. QED BY <3>1, <3>2, <3>3
  <2>2. QED BY <1>2, <2>1 DEF ShownIsPublished
<1>3. CASE \E b \in Articles : ReadPublic(b)
  <2> PICK b \in Articles : ReadPublic(b)
    BY <1>3
  <2>1. /\ shown' = [shown EXCEPT ![b] = shown[b] \cup PublicVersions(b)]
        /\ UNCHANGED <<row, history>>
    BY DEF ReadPublic, vars, tables
  <2>2. ASSUME NEW v \in PublicVersions(b)
        PROVE  v = row[b].published /\ v # Null /\ Approved(b, v)
    <3>1. row[b].status = "published" /\ v = row[b].published
      BY <2>2 DEF PublicVersions
    <3>2. v # Null
      BY <3>1 DEF Base, OneEvent, ShownStatuses
    <3>3. Approved(b, v)
      BY <3>1 DEF Base, PublicIsApproved, Approved
    <3>4. QED BY <3>1, <3>2, <3>3
  <2>3. \A a \in Articles : \A v \in shown'[a] :
          v = row[a].published /\ v # Null /\ Approved(a, v)
    BY <2>1, <2>2 DEF ShownIsPublished
  <2>4. ShownIsPublished'
    BY <2>1, <2>3 DEF ShownIsPublished, Approved
  <2>5. QED BY <2>1, <2>4
<1>4. QED
  BY <1>2, <1>3 DEF ReadsNext, rvars, views, CreateStamped, Request, Begin, End, Refuse,
     Load, Lock, RollBack, CommitStamped, Refresh, Poll, BeginPoll, TickUnpolled, ReadArticle

(* The public is ever shown one text of an article, an approved one, for   *)
(* any number of readers and whatever happens to the article.              *)
THEOREM PublicSeesOneText == ReadsSpec => []OnePublicText
<1> DEFINE J == ShownIsPublished /\ shown = [a \in Articles |-> shown[a]]
<1>1. ReadsInit => J
  BY DEF ReadsInit, ShownIsPublished
<1>2. Base /\ J /\ [ReadsNext]_rvars => J'
  BY ShownNext
<1>3. J => OnePublicText
  <2> SUFFICES ASSUME ShownIsPublished, NEW a \in Articles
               PROVE  /\ Cardinality(shown[a]) <= 1
                      /\ \A v \in shown[a] : Approved(a, v)
    BY DEF OnePublicText, Approved
  <2>1. \A v \in shown[a] : Approved(a, v)
    BY DEF ShownIsPublished
  <2>2. shown[a] = {} \/ shown[a] = {row[a].published}
    BY DEF ShownIsPublished
  <2>3. Cardinality(shown[a]) \in {0, 1}
    BY <2>2, FS_EmptySet, FS_Singleton
  <2>4. QED BY <2>1, <2>3
<1> HIDE DEF J
<1>4. QED BY <1>1, <1>2, <1>3, BaseInvariant, PTL DEF ReadsSpec

-----------------------------------------------------------------------------
(***************************************************************************)
(* DetailHoldsTogether                                                     *)
(***************************************************************************)
(* The history of an article leads to its status, and the versions it      *)
(* names are none or its current one                                       *)
Consistent ==
  \A a \in Articles : Exists(a) =>
    /\ LeadsTo(history[a], row[a].revision, row[a].status)
    /\ row[a].approved \in {Null, row[a].current}
    /\ row[a].published \in {Null, row[a].current}

LEMMA LeadsKept ==
  ASSUME NEW n \in Nat, NEW h, NEW g, NEW status, \A i \in 1..n : g[i] = h[i],
         LeadsTo(h, n, status)
  PROVE  LeadsTo(g, n, status)
<1> PICK i \in 1..n : h[i].to = status /\ \A j \in (i + 1)..n : h[j].to = "none"
  BY DEF LeadsTo
<1>1. \A j \in (i + 1)..n : j \in 1..n
  OBVIOUS
<1>2. g[i].to = status /\ \A j \in (i + 1)..n : g[j].to = "none"
  BY <1>1
<1>3. QED BY <1>2 DEF LeadsTo

LEMMA LeadsFurther ==
  ASSUME NEW n \in Nat, NEW h, NEW status
  PROVE  /\ h[n + 1].to = status => LeadsTo(h, n + 1, status)
         /\ h[n + 1].to = "none" /\ LeadsTo(h, n, status) => LeadsTo(h, n + 1, status)
<1>1. n + 1 \in 1..(n + 1) /\ \A j \in (n + 1 + 1)..(n + 1) : FALSE
  OBVIOUS
<1>2. ASSUME h[n + 1].to = status PROVE LeadsTo(h, n + 1, status)
  BY <1>1, <1>2 DEF LeadsTo
<1>3. ASSUME h[n + 1].to = "none", LeadsTo(h, n, status) PROVE LeadsTo(h, n + 1, status)
  <2> PICK i \in 1..n : h[i].to = status /\ \A j \in (i + 1)..n : h[j].to = "none"
    BY <1>3 DEF LeadsTo
  <2>1. i \in 1..(n + 1) /\ \A j \in (i + 1)..(n + 1) : j \in (i + 1)..n \/ j = n + 1
    OBVIOUS
  <2>2. QED BY <1>3, <2>1 DEF LeadsTo
<1>4. QED BY <1>2, <1>3

LEMMA ConsistentNext ==
  ASSUME SInv, SInv', RevisionLedger, OneEvent', Consistent, [Next]_vars
  PROVE  Consistent'
<1> SUFFICES ASSUME NEW a \in Articles, row'[a].status # "absent"
             PROVE  /\ LeadsTo(history'[a], row'[a].revision, row'[a].status)
                    /\ row'[a].approved \in {Null, row'[a].current}
                    /\ row'[a].published \in {Null, row'[a].current}
  BY DEF Consistent, Exists
<1> DEFINE h == row[a].revision
<1>1. h \in Nat /\ h = Len(history[a])
  BY DEF SInv, LInv, IInv, TypeOK, Row, RevisionLedger
<1>2. row'[a].published \in {Null, row'[a].current}
  BY DEF OneEvent, ShownStatuses, SInv, LInv, ConstraintsHold, Constraints, Checks
<1>3. CASE Kept(a)
  BY <1>3 DEF Kept, Consistent, Exists
<1>4. CASE Created(a)
  <2>1. PICK e : e.to = "draft" /\ Recorded(a, "created", e)
    BY <1>4 DEF Created
  <2>2. /\ row'[a].status = "draft" /\ row'[a].revision = h + 1 /\ row'[a].approved = Null
    BY <1>4 DEF Created, SInv, Blank, NoRow, Exists
  <2>3. history'[a][h + 1] = e
    BY <1>1, <2>1, RecordedOnce DEF SInv, LInv, IInv
  <2> HIDE DEF h
  <2>4. QED BY <1>1, <1>2, <2>1, <2>2, <2>3, LeadsFurther
<1>5. CASE Rewritten(a)
  <2>1. PICK e : e.to = "none" /\ Recorded(a, "version.created", e)
    BY <1>5 DEF Rewritten
  <2>2. /\ row'[a].status = row[a].status /\ row'[a].revision = h + 1
        /\ row'[a].approved = Null
    BY <1>5 DEF Rewritten
  <2>3. history'[a][h + 1] = e /\ \A i \in 1..h : history'[a][i] = history[a][i]
    BY <1>1, <2>1, RecordedOnce DEF SInv, LInv, IInv
  <2>4. LeadsTo(history[a], h, row[a].status)
    BY <2>2 DEF Consistent, Exists
  <2> HIDE DEF h
  <2>5. LeadsTo(history'[a], h, row[a].status)
    BY <1>1, <2>3, <2>4, LeadsKept
  <2>6. QED BY <1>1, <1>2, <2>1, <2>2, <2>3, <2>5, LeadsFurther
<1>6. CASE Turned(a)
  <2>1. PICK to, e : /\ e.to = to /\ Recorded(a, to, e) /\ row'[a].status = to
                     /\ row[a].status # "absent" /\ row'[a].revision = h + 1
                     /\ row'[a].current = row[a].current
                     /\ row'[a].approved \in {row[a].approved, row[a].current}
    BY <1>6 DEF Turned, Legal
  <2>2. history'[a][h + 1] = e
    BY <1>1, <2>1, RecordedOnce DEF SInv, LInv, IInv
  <2>3. row[a].approved \in {Null, row[a].current}
    BY <2>1 DEF Consistent, Exists
  <2> HIDE DEF h
  <2>4. LeadsTo(history'[a], row'[a].revision, row'[a].status)
    BY <1>1, <2>1, <2>2, LeadsFurther
  <2>5. row'[a].approved \in {Null, row'[a].current}
    BY <2>1, <2>3
  <2>6. QED BY <1>2, <2>4, <2>5
<1>7. QED BY <1>3, <1>4, <1>5, <1>6, StepShape DEF SInv

LEMMA ConsistentInvariant == ReadsSpec => []Consistent
<1>1. Init => Consistent
  BY DEF Init, Consistent, Exists, NoRow
<1>2. SInv /\ SInv' /\ RevisionLedger /\ OneEvent' /\ Consistent /\ [Next]_vars => Consistent'
  BY ConsistentNext
<1>3. QED BY <1>1, <1>2, BaseInvariant, ReadsAreEditorial, PTL DEF Spec, Base

(* What stays true of a row x of article a that was read at some time      *)
StillThere(x, a) ==
  /\ x.current \in Nat \ {0}
  /\ x.approved \in {Null, x.current} /\ x.published \in {Null, x.current}
  /\ 1..x.current \subseteq DOMAIN versions[a]
  /\ x.headline = Copied(versions[a][x.current])
  /\ x.revision \in Nat /\ Len(history[a]) >= x.revision
  /\ LeadsTo(history[a], x.revision, x.status)

LEMMA ThereAtFirst ==
  ASSUME Base, Consistent, NEW a \in Articles, Exists(a), NEW x, x = row[a]
  PROVE  StillThere(x, a)
<1>1. x \in Row /\ x.current \in Nat /\ x.revision \in Nat
  BY DEF Base, SInv, LInv, IInv, TypeOK, Row
<1>2. x.current # 0
  BY DEF Base, SInv, LInv, ConstraintsHold, Constraints, Checks, Exists, Null
<1>3. DOMAIN versions[a] = 1..x.current /\ x.headline = Copied(versions[a][x.current])
  BY DEF Base, EditsCompose
<1>4. Len(history[a]) = x.revision
  BY DEF Base, RevisionLedger
<1>5. QED BY <1>1, <1>2, <1>3, <1>4 DEF Consistent, StillThere

LEMMA ThereStays ==
  ASSUME Base, [Next]_vars, NEW a \in Articles, NEW x, StillThere(x, a)
  PROVE  StillThere(x, a)'
<1>1. x.current \in 1..x.current
  BY DEF StillThere
<1>2. /\ 1..x.current \subseteq DOMAIN versions'[a]
      /\ versions'[a][x.current] = versions[a][x.current]
  BY <1>1, TextsKept DEF StillThere, Base
<1>3. HistoryKept(a)
  BY HistoryGrows DEF Base
<1>4. Len(history'[a]) >= x.revision
  BY <1>3 DEF HistoryKept, StillThere
<1>5. \A i \in 1..x.revision : history'[a][i] = history[a][i]
  BY <1>3 DEF HistoryKept, StillThere
<1>6. LeadsTo(history'[a], x.revision, x.status)
  BY <1>5, LeadsKept DEF StillThere
<1>7. QED BY <1>2, <1>4, <1>6 DEF StillThere

DetailSoFar ==
  \A q \in Readers : answer[q] # NoAnswer =>
    LET x == answer[q].row IN
    /\ StillThere(x, answer[q].article)
    /\ answer[q].step \in 2..3 => /\ 1..x.current \subseteq DOMAIN answer[q].texts
                                  /\ x.headline = Copied(answer[q].texts[x.current])
    /\ answer[q].step = 3 => /\ Len(answer[q].history) >= x.revision
                             /\ LeadsTo(answer[q].history, x.revision, x.status)

LEMMA DetailSoFarNext ==
  ASSUME Base, Consistent, ViewsTyped, DetailSoFar, [ReadsNext]_rvars
  PROVE  DetailSoFar'
<1>1. [Next]_vars
  BY StepIsStep DEF Base
<1> SUFFICES ASSUME NEW q \in Readers, answer'[q] # NoAnswer,
                    NEW x, x = answer'[q].row, NEW a, a = answer'[q].article
             PROVE  /\ StillThere(x, a)'
                    /\ answer'[q].step \in 2..3 =>
                         /\ 1..x.current \subseteq DOMAIN answer'[q].texts
                         /\ x.headline = Copied(answer'[q].texts[x.current])
                    /\ answer'[q].step = 3 =>
                         /\ Len(answer'[q].history) >= x.revision
                         /\ LeadsTo(answer'[q].history, x.revision, x.status)
  BY DEF DetailSoFar, StillThere
<1>2. CASE answer'[q] = answer[q]
  <2>1. a \in Articles
    BY <1>2 DEF ViewsTyped, Detail, Reading
  <2>2. StillThere(x, a)
    BY <1>2 DEF DetailSoFar
  <2>3. StillThere(x, a)'
    BY <1>1, <2>1, <2>2, ThereStays
  <2>4. QED BY <1>2, <2>3 DEF DetailSoFar
<1>3. CASE UNCHANGED vars /\ \E b \in Articles : Looked(q, b)
  <2> PICK b \in Articles : Looked(q, b)
    BY <1>3
  <2>1. Exists(b) /\ x = row[b] /\ a = b /\ answer'[q].step = 1
    BY DEF Looked
  <2>2. StillThere(x, a)
    BY <2>1, ThereAtFirst
  <2>3. StillThere(x, a)'
    BY <1>1, <2>1, <2>2, ThereStays
  <2>4. QED BY <2>1, <2>3
<1>4. CASE UNCHANGED vars /\ Continued(q)
  <2>1. /\ answer[q] # NoAnswer /\ x = answer[q].row /\ a = answer[q].article
        /\ a \in Articles
    BY <1>4 DEF Continued, Detail, Reading, NoAnswer
  <2>2. StillThere(x, a)
    BY <2>1 DEF DetailSoFar
  <2>3. StillThere(x, a)'
    BY <1>1, <2>1, <2>2, ThereStays
  <2>4. CASE answer[q].step = 1 /\ answer'[q].step = 2 /\ answer'[q].texts = versions[a]
    <3>1. /\ 1..x.current \subseteq DOMAIN answer'[q].texts
          /\ x.headline = Copied(answer'[q].texts[x.current])
      BY <2>2, <2>4 DEF StillThere
    <3> HIDE DEF StillThere
    <3>2. QED BY <2>3, <2>4, <3>1
  <2>5. CASE /\ answer[q].step = 2 /\ answer'[q].step = 3
             /\ answer'[q].texts = answer[q].texts /\ answer'[q].history = history[a]
    <3>1. /\ 1..x.current \subseteq DOMAIN answer'[q].texts
          /\ x.headline = Copied(answer'[q].texts[x.current])
      BY <2>1, <2>5 DEF DetailSoFar
    <3>2. /\ Len(answer'[q].history) >= x.revision
          /\ LeadsTo(answer'[q].history, x.revision, x.status)
      BY <2>2, <2>5 DEF StillThere
    <3> HIDE DEF StillThere
    <3>3. QED BY <2>3, <3>1, <3>2
  <2>6. QED BY <1>4, <2>1, <2>4, <2>5 DEF Continued
<1>5. QED BY <1>2, <1>3, <1>4, AnswerShape

(* A detail that is read in three statements, with any number of commits   *)
(* between them, has the texts its article names and a history that leads  *)
(* to its status.                                                          *)
THEOREM DetailsHoldTogether == ReadsSpec => []DetailHoldsTogether
<1>1. ReadsInit => DetailSoFar
  BY DEF ReadsInit, DetailSoFar
<1>2. Base /\ Consistent /\ ViewsTyped /\ DetailSoFar /\ [ReadsNext]_rvars => DetailSoFar'
  BY DetailSoFarNext
<1>3. DetailSoFar => DetailHoldsTogether
  <2> SUFFICES ASSUME DetailSoFar, NEW q \in Readers, answer[q].step = 3
               PROVE  LET x == answer[q] IN
                      /\ 1..x.row.current \subseteq DOMAIN x.texts
                      /\ {x.row.approved, x.row.published} \subseteq DOMAIN x.texts \cup {Null}
                      /\ x.row.headline = Copied(x.texts[x.row.current])
                      /\ Len(x.history) >= x.row.revision
                      /\ LeadsTo(x.history, x.row.revision, x.row.status)
    BY DEF DetailHoldsTogether
  <2>1. answer[q] # NoAnswer
    BY DEF NoAnswer
  <2>2. answer[q].row.current \in 1..answer[q].row.current
    BY <2>1 DEF DetailSoFar, StillThere
  <2>3. QED BY <2>1, <2>2 DEF DetailSoFar, StillThere
<1>4. QED BY <1>1, <1>2, <1>3, BaseInvariant, ConsistentInvariant, ViewsInvariant, PTL DEF ReadsSpec
-----------------------------------------------------------------------------
(***************************************************************************)
(* HistoryInOrder                                                          *)
(***************************************************************************)
BegunTyped == begun \in [Sessions -> [Articles -> Nat]]

(* A request in progress is the one its client sent.                       *)
Asking == \A r \in Requests : call[r] # NoCall => asked[r] = call[r]

(* A client read the revision it sends before its request began.           *)
Knowing == \A r \in Requests : asked[r] # NoCall =>
             LET a == asked[r].article IN
             asked[r].ifMatch <= begun[r][a] /\ begun[r][a] <= row[a].revision

(* The articles of a batch have not changed since its poll began, nor have *)
(* those that are due while the poll has taken none yet.                   *)
Holding == \A s \in Schedulers : \A a \in Held(s) : begun[s][a] = row[a].revision
Looking == \A s \in Schedulers : Polling(s) /\ Held(s) = {} =>
             \A a \in Articles : Due(a) => begun[s][a] = row[a].revision

InOrder(h, n) == Len(h) = n /\ \A i \in DOMAIN h : h[i] = i - 1
Stamped == /\ stamps \in [Articles -> Seq(Nat)]
           /\ \A a \in Articles : InOrder(stamps[a], row[a].revision)

(* What is changed while the clock stands still is not due yet.            *)
LEMMA DueLater ==
  ASSUME SInv, [Next]_vars, NEW a \in Articles, row'[a] # row[a]
  PROVE  now' = now /\ ~(row'[a].status = "scheduled" /\ row'[a].scheduledAt <= now)
<1>1. CASE \E b \in Articles, u \in Users : CreateArticle(b, u)
  BY <1>1 DEF CreateArticle, Write, NoRow, SInv, LInv, IInv, TypeOK
<1>2. CASE \E r \in Requests : Commit(r)
  <2> PICK r \in Requests : Commit(r)
    BY <1>2
  <2>1. Locked(r) /\ Granted(r) /\ now' = now
    BY DEF Commit, UpdateArticle, TransitionArticle, SubmitArticle, ReviewArticle,
           ScheduleArticle, PublishArticle, ArchiveArticle, EndRequest
  <2>2. /\ call[r] \in Call /\ call[r].article \in Articles
        /\ Copy(r) = row[call[r].article] /\ Copy(r) \in Row
    BY <2>1, LockedFacts DEF SInv, LInv
  <2>3. a = call[r].article
    BY CommitStep DEF SInv, LInv, IInv, TypeOK
  <2> DEFINE x == row[a]
             z == [x EXCEPT !.scheduledAt = call[r].at]
             y == [x EXCEPT !.approved = x.current]
  <2>4. /\ x \in Row /\ z \in Row /\ y \in Row /\ z.scheduledAt = call[r].at
        /\ call[r].at \in Nat /\ now \in Nat
    <3>1. call[r].at \in Nat /\ now \in Nat
      BY <2>2 DEF Call, EditorialAssumption, SInv, LInv, IInv, TypeOK
    <3>2. x \in Row
      BY <2>2, <2>3
    <3>3. QED BY <3>1, <3>2 DEF Row
  <2>5. /\ {"in_review", "approved", "changes_requested", "scheduled", "published",
            "archived"} \subseteq Statuses
    BY DEF Statuses
  <2>6. CASE UpdateArticle(r)
    <3>1. Copy(r).status \in Editable /\ Copy(r).status # "scheduled"
      BY <2>1, <2>6 DEF UpdateArticle, Granted, Accepts, Editable
    <3>2. row'[a].status = row[a].status
      BY <2>2, <2>3, <2>6 DEF UpdateArticle, Write, Row, SInv, LInv, IInv, TypeOK
    <3>3. QED BY <2>1, <2>2, <2>3, <3>1, <3>2
  <2>7. CASE ScheduleArticle(r)
    <3>1. row'[a] = Moved(z, "scheduled") /\ call[r].at > now
      BY <2>1, <2>2, <2>3, <2>7
      DEF ScheduleArticle, TransitionArticle, Write, Granted, SInv, LInv, IInv, TypeOK
    <3> HIDE DEF z
    <3>2. Moved(z, "scheduled").scheduledAt = z.scheduledAt
      BY <2>4, <2>5, MovedFields
    <3>3. QED BY <2>1, <2>4, <3>1, <3>2
  <2>8. CASE SubmitArticle(r) \/ ReviewArticle(r) \/ PublishArticle(r) \/ ArchiveArticle(r)
    <3>1. \E w \in {x, y} :
            \E to \in {"in_review", "approved", "changes_requested", "published", "archived"} :
              row'[a] = Moved(w, to)
      <4> DEFINE c == Copy(r)
      <4>1. TypeOK /\ c = x /\ [c EXCEPT !.approved = c.current] = y
        BY <2>2, <2>3 DEF SInv, LInv, IInv
      <4> HIDE DEF c, x, y
      <4>2. ASSUME NEW w, NEW to, NEW action, TransitionArticle(r, w, to, action)
            PROVE  row'[a] = Moved(w, to)
        BY <2>2, <2>3, <4>1, <4>2 DEF TransitionArticle, Write, TypeOK
      <4>3. CASE SubmitArticle(r)
        BY <4>1, <4>2, <4>3 DEF SubmitArticle, c
      <4>4. CASE ReviewArticle(r)
        <5>1. \/ TransitionArticle(r, y, "approved", "approved")
              \/ TransitionArticle(r, x, "changes_requested", "changes_requested")
          BY <4>1, <4>4 DEF ReviewArticle, c
        <5>2. QED BY <4>2, <5>1
      <4>5. CASE PublishArticle(r) \/ ArchiveArticle(r)
        BY <4>1, <4>2, <4>5 DEF PublishArticle, ArchiveArticle, c
      <4>6. QED BY <2>8, <4>3, <4>4, <4>5
    <3> HIDE DEF x, y
    <3> PICK w \in {x, y},
             to \in {"in_review", "approved", "changes_requested", "published", "archived"} :
               row'[a] = Moved(w, to)
      BY <3>1
    <3>2. row'[a].status # "scheduled"
      <4>1. w \in Row /\ to \in Statuses /\ to # "scheduled"
        BY <2>4, <2>5
      <4>2. Moved(w, to).status = to
        BY <4>1, MovedTyped
      <4>3. QED BY <4>1, <4>2
    <3>3. QED BY <2>1, <3>2
  <2>9. QED BY <2>6, <2>7, <2>8 DEF Commit
<1>3. CASE \E s \in Schedulers : PublishDue(s)
  <2> PICK s \in Schedulers : PublishDue(s)
    BY <1>3
  <2>1. a \in Held(s) /\ row'[a] = Moved(session[s][a], "published") /\ now' = now
    BY DEF PublishDue
  <2>2. row'[a].status = "published"
    BY <2>1, SchedulerHolds DEF SInv, LInv
  <2>3. QED BY <2>1, <2>2
<1>4. CASE UNCHANGED row
  BY <1>4
<1>5. QED
  BY <1>1, <1>2, <1>3, <1>4 DEF Next, Handle, Schedule, SelectSome, Receive,
     LockArticle, Reject, Abort, SelectDue, AbortBatch, Tick, vars, tables

(* A row that a scheduler goes on holding is not changed.                  *)
LEMMA HeldStays ==
  ASSUME SInv, [Next]_vars, NEW s \in Schedulers, NEW a \in Articles,
         lock[a] = s, lock'[a] = s
  PROVE  row'[a] = row[a]
<1>1. s \in Sessions /\ s \notin Requests /\ s # Free /\ a \in Held(s)
  BY DEF Sessions, EditorialAssumption, Held
<1>2. CASE UNCHANGED vars
  BY <1>2 DEF vars, tables
<1>3. CASE Next /\ row'[a] # row[a]
  <2>1. PublishDue(s)
    BY <1>1, <1>3, OnlyOwnerWrites DEF SInv, LInv
  <2>2. lock'[a] = Free
    BY <1>1, <2>1 DEF PublishDue, Release
  <2>3. QED BY <1>1, <2>2
<1>4. QED BY <1>2, <1>3

(* The steps of a scheduler, as seen by its transaction: it stays as it is,*)
(* begins, takes its batch, or ends.                                       *)
LEMMA PollShape ==
  ASSUME Base, BegunTyped, [ReadsNext]_rvars, NEW s \in Schedulers
  PROVE  \/ /\ begun'[s] = begun[s] /\ Held(s)' = Held(s)
            /\ now' = now \/ ~Polling(s) \/ Held(s) # {}
         \/ UNCHANGED vars /\ begun'[s] = Moment
         \/ Polling(s) /\ SelectSome(s) /\ begun' = begun
         \/ begun'[s] = NotBegun /\ Held(s)' = {}
<1>1. s \in Sessions /\ s \notin Requests /\ s # Free
  BY DEF Sessions, EditorialAssumption
<1>2. CASE \E p \in Sessions \ {s} :
             /\ begun' \in {begun, [begun EXCEPT ![p] = Moment], [begun EXCEPT ![p] = NotBegun]}
             /\ now' = now
             /\ \A a \in Articles : lock'[a] = s <=> lock[a] = s
  BY <1>1, <1>2 DEF BegunTyped, Held
<1>3. CASE \E p \in Sessions \ {s} : Release(p) /\ now' = now
             /\ begun' = [begun EXCEPT ![p] = NotBegun]
  BY <1>1, <1>2, <1>3 DEF Release
<1>4. CASE UNCHANGED <<begun, lock, now>>
  BY <1>4 DEF Held
<1>5. CASE TickUnpolled
  BY <1>5 DEF TickUnpolled, Tick, Held, views
<1>6. CASE \E r \in Requests : Request(r)
  <2> PICK r \in Requests : Request(r)
    BY <1>6
  <2>1. r \in Sessions \ {s} /\ r # s
    BY <1>1 DEF Sessions
  <2>2. CASE Lock(r)
    <3>1. begun' = begun /\ now' = now /\ \A a \in Articles : lock'[a] = s <=> lock[a] = s
      BY <1>1, <2>1, <2>2 DEF Lock, LockArticle, views, Base, SInv, LInv, IInv, TypeOK
    <3>2. QED BY <1>2, <2>1, <3>1
  <2>3. CASE RollBack(r) \/ CommitStamped(r)
    <3>1. EndRequest(r) /\ begun' = [begun EXCEPT ![r] = NotBegun]
      BY <2>3 DEF RollBack, CommitStamped, End, Reject, Abort, Commit, UpdateArticle,
         SubmitArticle, ReviewArticle, ScheduleArticle, PublishArticle, ArchiveArticle,
         TransitionArticle
    <3>2. QED BY <1>3, <2>1, <3>1 DEF EndRequest
  <2>4. CASE Load(r) \/ Refresh(r)
    BY <1>4, <2>4 DEF Load, Refresh, Receive, views, vars
  <2>5. CASE Refuse(r) \/ \E c \in Call : Begin(r, c)
    <3>1. /\ begun' \in {[begun EXCEPT ![r] = Moment], [begun EXCEPT ![r] = NotBegun]}
          /\ now' = now /\ lock' = lock
      BY <2>5 DEF Refuse, Begin, End, vars
    <3>2. QED BY <1>2, <2>1, <3>1
  <2>6. QED BY <2>2, <2>3, <2>4, <2>5 DEF Request
<1>7. CASE \E t \in Schedulers : Poll(t)
  <2> PICK t \in Schedulers : Poll(t)
    BY <1>7
  <2>1. t \in Sessions
    BY DEF Sessions
  <2>2. CASE BeginPoll(t)
    <3>1. UNCHANGED vars /\ begun' = [begun EXCEPT ![t] = Moment]
      BY <2>2 DEF BeginPoll
    <3>2. CASE t = s
      BY <1>1, <3>1, <3>2 DEF BegunTyped
    <3>3. CASE t # s
      BY <1>2, <2>1, <3>1, <3>3 DEF vars
    <3>4. QED BY <3>2, <3>3
  <2>3. CASE Polling(t) /\ SelectSome(t) /\ UNCHANGED views
    <3>1. CASE t = s
      BY <2>3, <3>1 DEF views
    <3>2. CASE t # s
      <4>1. begun' = begun /\ now' = now
        BY <2>3 DEF views, SelectSome, SelectDue
      <4>2. \A a \in Articles : lock'[a] = s <=> lock[a] = s
        BY <1>1, <2>3, <3>2 DEF SelectSome, SelectDue
      <4>3. QED BY <1>2, <2>1, <3>2, <4>1, <4>2
    <3>3. QED BY <3>1, <3>2
  <2>4. CASE (PublishDue(t) \/ AbortBatch(t)) /\ EndPoll(t)
    <3>1. Release(t) /\ now' = now /\ begun' = [begun EXCEPT ![t] = NotBegun]
      BY <2>4 DEF EndPoll, PublishDue, AbortBatch
    <3>2. CASE t = s
      BY <1>1, <3>1, <3>2 DEF Release, Held, BegunTyped
    <3>3. CASE t # s
      BY <1>3, <2>1, <3>1, <3>3
    <3>4. QED BY <3>2, <3>3
  <2>5. CASE Held(t) = {} /\ UNCHANGED vars /\ EndPoll(t)
    <3>1. CASE t = s
      BY <1>1, <2>5, <3>1 DEF EndPoll, Held, vars, BegunTyped
    <3>2. CASE t # s
      BY <1>2, <2>1, <2>5, <3>2 DEF EndPoll, vars
    <3>3. QED BY <3>1, <3>2
  <2>6. QED BY <2>2, <2>3, <2>4, <2>5 DEF Poll
<1>8. QED
  BY <1>4, <1>5, <1>6, <1>7 DEF ReadsNext, rvars, views, vars, CreateStamped, CreateArticle,
     ReadArticle, ReadPublic

(* The steps of a request, as seen by its transaction: it stays as it is,  *)
(* begins, or ends.                                                        *)
LEMMA AskShape ==
  ASSUME Base, BegunTyped, Asking, [ReadsNext]_rvars, NEW r \in Requests
  PROVE  /\ \/ asked'[r] = asked[r] /\ begun'[r] = begun[r]
            \/ /\ UNCHANGED vars /\ asked[r] = NoCall
               /\ asked'[r] \in Call /\ Known(asked'[r]) /\ begun'[r] = Moment
            \/ asked'[r] = NoCall /\ call'[r] = NoCall
         /\ call'[r] \in {call[r], asked[r], NoCall}
<1>1. /\ r \in Sessions /\ r \notin Schedulers
      /\ asked \in [Requests -> Call \cup {NoCall}] /\ call \in [Requests -> Call \cup {NoCall}]
  BY DEF Sessions, EditorialAssumption, Base, AskedTyped, SInv, LInv, IInv, TypeOK
<1>2. CASE UNCHANGED <<asked, begun, call>>
  BY <1>2
<1>3. CASE \E q \in Requests : Request(q)
  <2> PICK q \in Requests : Request(q)
    BY <1>3
  <2>1. q \in Sessions
    BY DEF Sessions
  <2>2. CASE \E c \in Call : Begin(q, c)
    <3> PICK c \in Call : Begin(q, c)
      BY <2>2
    <3>1. /\ asked[q] = NoCall /\ Known(c) /\ UNCHANGED vars
          /\ asked' = [asked EXCEPT ![q] = c] /\ begun' = [begun EXCEPT ![q] = Moment]
      BY DEF Begin
    <3>2. QED BY <1>1, <2>1, <3>1 DEF BegunTyped, vars
  <2>3. CASE Refuse(q)
    <3>1. /\ call[q] = NoCall /\ call' = call
          /\ asked' = [asked EXCEPT ![q] = NoCall] /\ begun' = [begun EXCEPT ![q] = NotBegun]
      BY <2>3 DEF Refuse, End, vars
    <3>2. QED BY <1>1, <2>1, <3>1 DEF BegunTyped
  <2>4. CASE Load(q)
    BY <1>1, <2>4 DEF Load, Receive, views
  <2>5. CASE RollBack(q) \/ CommitStamped(q)
    <3>1. /\ call' = [call EXCEPT ![q] = NoCall]
          /\ asked' = [asked EXCEPT ![q] = NoCall] /\ begun' = [begun EXCEPT ![q] = NotBegun]
      BY <2>5 DEF RollBack, CommitStamped, End, Reject, Abort, Commit, UpdateArticle,
         SubmitArticle, ReviewArticle, ScheduleArticle, PublishArticle, ArchiveArticle,
         TransitionArticle, EndRequest
    <3>2. QED BY <1>1, <2>1, <3>1 DEF BegunTyped
  <2>6. CASE Lock(q) \/ Refresh(q)
    BY <1>2, <2>6 DEF Lock, LockArticle, Refresh, views, vars
  <2>7. QED BY <2>2, <2>3, <2>4, <2>5, <2>6 DEF Request
<1>4. CASE \E s \in Schedulers : Poll(s)
  <2> PICK s \in Schedulers : Poll(s)
    BY <1>4
  <2>1. s \in Sessions /\ s # r
    BY <1>1 DEF Sessions
  <2>2. /\ asked' = asked /\ call' = call
        /\ begun' \in {begun, [begun EXCEPT ![s] = Moment], [begun EXCEPT ![s] = NotBegun]}
    BY DEF Poll, BeginPoll, EndPoll, SelectSome, SelectDue, PublishDue, AbortBatch, vars, views
  <2>3. QED BY <1>1, <2>1, <2>2 DEF BegunTyped
<1>5. QED
  BY <1>2, <1>3, <1>4 DEF ReadsNext, rvars, views, vars, CreateStamped, CreateArticle,
     TickUnpolled, Tick, ReadArticle, ReadPublic

LEMMA BegunNext == ASSUME Base, BegunTyped, [ReadsNext]_rvars PROVE BegunTyped'
<1>1. Moment \in [Articles -> Nat] /\ NotBegun \in [Articles -> Nat]
  BY DEF Moment, NotBegun, Base, SInv, LInv, IInv, TypeOK, Row
<1>2. \/ begun' = begun
      \/ \E p \in Sessions : begun' \in {[begun EXCEPT ![p] = Moment],
                                         [begun EXCEPT ![p] = NotBegun]}
  BY DEF Sessions, ReadsNext, rvars, views, CreateStamped, Request, Begin, End, Refuse, Load,
     Lock, RollBack, CommitStamped, Refresh, Poll, BeginPoll, EndPoll, TickUnpolled,
     ReadArticle, ReadPublic
<1> HIDE DEF Moment, NotBegun
<1>3. QED BY <1>1, <1>2 DEF BegunTyped

LEMMA AskingNext ==
  ASSUME Base, BegunTyped, Asking, [ReadsNext]_rvars
  PROVE  Asking'
<1> SUFFICES ASSUME NEW r \in Requests, call'[r] # NoCall PROVE asked'[r] = call'[r]
  BY DEF Asking
<1>1. asked'[r] = asked[r] \/ (UNCHANGED vars /\ asked[r] = NoCall)
  BY AskShape
<1>2. call'[r] \in {call[r], asked[r]}
  BY AskShape
<1>3. QED BY <1>1, <1>2 DEF Asking, vars

LEMMA KnowingNext ==
  ASSUME Base, BegunTyped, Asking, Knowing, [ReadsNext]_rvars
  PROVE  Knowing'
<1> SUFFICES ASSUME NEW r \in Requests, asked'[r] # NoCall, NEW c, c = asked'[r]
             PROVE  c.ifMatch <= begun'[r][c.article] /\ begun'[r][c.article] <= row'[c.article].revision
  BY DEF Knowing
<1>1. [Next]_vars /\ r \in Sessions
  BY StepIsStep DEF Base, Sessions
<1>2. CASE asked'[r] = asked[r] /\ begun'[r] = begun[r]
  <2>1. c \in Call /\ c.article \in Articles
    BY <1>2 DEF Base, AskedTyped, Call
  <2>2. row[c.article].revision \in Nat /\ begun[r][c.article] \in Nat
    BY <1>1, <2>1, Grown DEF Base, BegunTyped
  <2>3. row[c.article].revision <= row'[c.article].revision
    BY <1>1, <2>1, <2>2, Grown DEF Base
  <2>4. c.ifMatch <= begun[r][c.article] /\ begun[r][c.article] <= row[c.article].revision
    BY <1>2 DEF Knowing
  <2>5. row'[c.article].revision \in Nat
    BY <1>1, <2>1, <2>2, Grown DEF Base
  <2>6. QED BY <1>2, <2>2, <2>3, <2>4, <2>5
<1>3. CASE UNCHANGED vars /\ c \in Call /\ Known(c) /\ begun'[r] = Moment
  <2>1. c.article \in Articles
    BY <1>3 DEF Call
  <2>2. begun'[r][c.article] = row[c.article].revision /\ row'[c.article] = row[c.article]
    BY <1>3, <2>1 DEF Moment, vars, tables
  <2>3. row[c.article].revision \in Nat
    BY <1>1, <2>1, Grown DEF Base
  <2>4. QED BY <1>3, <2>2, <2>3 DEF Known
<1>4. QED BY <1>2, <1>3, AskShape

LEMMA HoldingNext ==
  ASSUME Base, BegunTyped, Holding, Looking, [ReadsNext]_rvars
  PROVE  Holding'
<1> SUFFICES ASSUME NEW s \in Schedulers, NEW a \in Articles, lock'[a] = s
             PROVE  begun'[s][a] = row'[a].revision
  BY DEF Holding, Held
<1>1. [Next]_vars
  BY StepIsStep DEF Base
<1>2. CASE begun'[s] = begun[s] /\ Held(s)' = Held(s)
  <2>1. a \in Held(s) /\ lock[a] = s
    BY <1>2 DEF Held
  <2>2. row'[a] = row[a]
    BY <1>1, <2>1, HeldStays DEF Base
  <2>3. QED BY <1>2, <2>1, <2>2 DEF Holding
<1>3. CASE UNCHANGED vars /\ begun'[s] = Moment
  BY <1>3 DEF Moment, vars, tables
<1>4. CASE Polling(s) /\ SelectSome(s) /\ begun' = begun
  <2>1. Held(s) = {} /\ Due(a) /\ row' = row
    BY <1>4 DEF SelectSome, SelectDue, Held, tables
  <2>2. QED BY <1>4, <2>1 DEF Looking
<1>5. CASE Held(s)' = {}
  BY <1>5 DEF Held
<1>6. QED BY <1>2, <1>3, <1>4, <1>5, PollShape

LEMMA LookingNext ==
  ASSUME Base, BegunTyped, Looking, [ReadsNext]_rvars
  PROVE  Looking'
<1> SUFFICES ASSUME NEW s \in Schedulers, begun'[s] # NotBegun, Held(s)' = {},
                    NEW a \in Articles, row'[a].status = "scheduled", row'[a].scheduledAt <= now'
             PROVE  begun'[s][a] = row'[a].revision
  BY DEF Looking, Polling, Due, NotBegun
<1>1. [Next]_vars
  BY StepIsStep DEF Base
<1>2. CASE /\ begun'[s] = begun[s] /\ Held(s)' = Held(s)
           /\ now' = now \/ ~Polling(s) \/ Held(s) # {}
  <2>1. Polling(s) /\ Held(s) = {} /\ now' = now
    BY <1>2 DEF Polling
  <2>2. row'[a] = row[a]
    BY <1>1, <2>1, DueLater DEF Base
  <2>3. Due(a)
    BY <2>1, <2>2 DEF Due
  <2>4. QED BY <1>2, <2>1, <2>2, <2>3 DEF Looking
<1>3. CASE UNCHANGED vars /\ begun'[s] = Moment
  BY <1>3 DEF Moment, vars, tables
<1>4. CASE SelectSome(s)
  <2>1. \E b \in Articles : lock'[b] = s
    BY <1>4 DEF SelectSome, SelectDue
  <2>2. QED BY <2>1 DEF Held
<1>5. QED BY <1>2, <1>3, <1>4, PollShape

(* The history of an article grows exactly when its row changes.           *)
LEMMA HistoryTells ==
  ASSUME Base, Base', [Next]_vars, NEW a \in Articles
  PROVE  /\ row[a].revision \in Nat
         /\ history'[a] = history[a] => row'[a].revision = row[a].revision
         /\ history'[a] # history[a] => /\ row'[a] # row[a]
                                        /\ row'[a].revision = row[a].revision + 1
<1>1. Len(history[a]) = row[a].revision /\ Len(history'[a]) = row'[a].revision
  BY DEF Base, RevisionLedger
<1>2. /\ row[a].revision \in Nat
      /\ row'[a] = row[a] \/ row'[a].revision = row[a].revision + 1
  BY Grown DEF Base
<1>3. CASE Kept(a)
  BY <1>1, <1>2, <1>3 DEF Kept
<1>4. CASE Created(a) \/ Rewritten(a) \/ Turned(a)
  <2>1. row'[a].revision = row[a].revision + 1
    BY <1>4 DEF Created, Rewritten, Turned, Base, SInv, Blank, NoRow, Exists
  <2>2. row'[a].revision # row[a].revision
    BY <1>2, <2>1
  <2>3. QED BY <1>1, <1>2, <2>1, <2>2
<1>5. QED BY <1>3, <1>4, StepShape DEF Base, SInv

LEMMA InOrderNext ==
  ASSUME NEW n \in Nat, NEW h \in Seq(Nat), InOrder(h, n)
  PROVE  Append(h, n) \in Seq(Nat) /\ InOrder(Append(h, n), n + 1)
<1>1. Append(h, n) \in Seq(Nat)
  OBVIOUS
<1>2. QED BY <1>1, Appended DEF InOrder

(* A transaction that stamps what it changes with the moment of the change *)
LEMMA StampNext ==
  ASSUME Base, Base', [Next]_vars, Stamped, BegunTyped, NEW p \in Sessions, Stamp(p),
         \A a \in Articles : row'[a] # row[a] => begun[p][a] = row[a].revision
  PROVE  Stamped'
<1>1. ASSUME NEW a \in Articles
      PROVE  stamps'[a] \in Seq(Nat) /\ InOrder(stamps'[a], row'[a].revision)
  <2>1. stamps[a] \in Seq(Nat) /\ InOrder(stamps[a], row[a].revision)
    BY DEF Stamped
  <2>2. CASE history'[a] = history[a]
    BY <2>1, <2>2, HistoryTells DEF Stamp
  <2>3. CASE history'[a] # history[a]
    <3>1. /\ row[a].revision \in Nat /\ row'[a].revision = row[a].revision + 1
          /\ begun[p][a] = row[a].revision
      BY <2>3, HistoryTells
    <3>2. stamps'[a] = Append(stamps[a], row[a].revision)
      BY <2>3, <3>1 DEF Stamp
    <3>3. QED BY <2>1, <3>1, <3>2, InOrderNext
  <2>4. QED BY <2>2, <2>3
<1>2. QED BY <1>1 DEF Stamped, Stamp

LEMMA StampedNext ==
  ASSUME Base, Base', Stamped, BegunTyped, Asking, Knowing, Holding, [ReadsNext]_rvars
  PROVE  Stamped'
<1>1. [Next]_vars
  BY StepIsStep DEF Base
<1>2. CASE UNCHANGED <<history, stamps>>
  <2>1. \A a \in Articles : row'[a].revision = row[a].revision
    BY <1>1, <1>2, HistoryTells
  <2>2. QED BY <1>2, <2>1 DEF Stamped
<1>3. CASE \E a \in Articles, u \in Users : CreateStamped(a, u)
  <2> PICK a \in Articles, u \in Users : CreateStamped(a, u)
    BY <1>3
  <2>1. CreateArticle(a, u) /\ stamps' = [stamps EXCEPT ![a] = Append(stamps[a], 0)]
    BY DEF CreateStamped
  <2>2. Created(a) /\ \A b \in Articles \ {a} : Kept(b)
    BY <2>1, CreateShape DEF Base, SInv
  <2>3. row[a].revision = 0 /\ row'[a].revision = 0 + 1
    BY <2>2 DEF Created, Base, SInv, Blank, NoRow, Exists
  <2>4. Append(stamps[a], 0) \in Seq(Nat) /\ InOrder(Append(stamps[a], 0), 0 + 1)
    <3>1. stamps[a] \in Seq(Nat) /\ InOrder(stamps[a], 0)
      BY <2>3 DEF Stamped
    <3>2. 0 \in Nat
      OBVIOUS
    <3>3. QED BY <3>1, <3>2, InOrderNext
  <2>5. \A b \in Articles \ {a} : row'[b] = row[b]
    BY <2>2 DEF Kept
  <2>6. QED BY <2>1, <2>3, <2>4, <2>5 DEF Stamped
<1>4. CASE \E r \in Requests : CommitStamped(r)
  <2> PICK r \in Requests : CommitStamped(r)
    BY <1>4
  <2>1. Commit(r) /\ Stamp(r) /\ r \in Sessions
    BY DEF CommitStamped, Sessions
  <2> PICK a \in Articles : /\ a = call[r].article /\ row[a].revision = call[r].ifMatch
                            /\ \E y : row' = [row EXCEPT ![a] = y]
    BY <2>1, CommitStep DEF Base, SInv, LInv
  <2>2. call[r] # NoCall
    BY <2>1 DEF Locked, Commit, UpdateArticle, TransitionArticle, SubmitArticle, ReviewArticle,
       ScheduleArticle, PublishArticle, ArchiveArticle
  <2>3. asked[r] = call[r]
    BY <2>2 DEF Asking
  <2>4. row[a].revision <= begun[r][a] /\ begun[r][a] <= row[a].revision
    BY <2>2, <2>3 DEF Knowing
  <2>5. row[a].revision \in Nat /\ begun[r][a] \in Nat
    BY <1>1, <2>1, Grown DEF Base, BegunTyped
  <2>6. begun[r][a] = row[a].revision
    BY <2>4, <2>5
  <2>7. \A b \in Articles : row'[b] # row[b] => begun[r][b] = row[b].revision
    BY <2>6 DEF Base, SInv, LInv, IInv, TypeOK
  <2>8. QED BY <1>1, <2>1, <2>7, StampNext
<1>5. CASE \E s \in Schedulers : PublishDue(s) /\ Stamp(s)
  <2> PICK s \in Schedulers : PublishDue(s) /\ Stamp(s)
    BY <1>5
  <2>1. s \in Sessions
    BY DEF Sessions
  <2>2. \A b \in Articles : row'[b] # row[b] => b \in Held(s)
    BY DEF PublishDue
  <2>3. QED BY <1>1, <2>1, <2>2, StampNext DEF Holding
<1>6. QED
  BY <1>2, <1>3, <1>4, <1>5 DEF ReadsNext, rvars, views, vars, tables, Request, Begin, Refuse,
     Load, Receive, Lock, LockArticle, RollBack, Reject, Abort, Refresh, Poll, BeginPoll,
     SelectSome, SelectDue, AbortBatch, TickUnpolled, Tick, ReadArticle, ReadPublic

(* As long as clients take If-Match from answers (Known): sorted by        *)
(* created_at, which is when a transaction began and not when it           *)
(* committed, the history of an article is in the order of its commits.    *)
THEOREM HistoryShownInOrder == ReadsSpec => []HistoryInOrder
<1> DEFINE Timely == BegunTyped /\ Asking /\ Knowing /\ Holding /\ Looking /\ Stamped
<1>1. ReadsInit => Timely
  <2> SUFFICES ASSUME ReadsInit PROVE Timely
    OBVIOUS
  <2>1. BegunTyped /\ Asking /\ Knowing
    BY DEF ReadsInit, Init, BegunTyped, Asking, Knowing, NotBegun
  <2>2. Holding /\ Looking
    BY DEF ReadsInit, Init, Holding, Looking, Held, Polling, Sessions, EditorialAssumption
  <2>3. Stamped
    BY DEF ReadsInit, Init, Stamped, InOrder, NoRow
  <2>4. QED BY <2>1, <2>2, <2>3
<1>2. Base /\ Base' /\ Timely /\ [ReadsNext]_rvars => Timely'
  BY BegunNext, AskingNext, KnowingNext, HoldingNext, LookingNext, StampedNext
<1>3. Base /\ Timely => HistoryInOrder
  BY DEF Base, RevisionLedger, Stamped, InOrder, HistoryInOrder
<1>4. QED BY <1>1, <1>2, <1>3, BaseInvariant, PTL DEF ReadsSpec
=============================================================================
