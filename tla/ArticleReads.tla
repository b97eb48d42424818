---------------------------- MODULE ArticleReads ----------------------------
(***************************************************************************)
(* What clients are shown of the editorial workflow.  The detail of an     *)
(* article is read in three statements at READ COMMITTED, so that commits  *)
(* fall between them; the answer to a change is read in a transaction      *)
(* after its commit; the public text is read in one join; and the history  *)
(* is shown in the order of created_at, which is the time its transaction  *)
(* began and not the time it committed.                                    *)
(*                                                                         *)
(* The tables, requests and schedulers are those of Editorial.             *)
(***************************************************************************)
EXTENDS Editorial

CONSTANT Readers   \* requests for the detail of an article

VARIABLES asked,   \* asked[r]: what request r was sent, from its first statement
          begun,   \* begun[p][a]: revision of a when p's transaction began
          stamps,  \* stamps[a]: created_at of a's history, in commit order
          reply,   \* reply[r]: what r committed and is to be answered
          answer,  \* answer[q]: what the statements of reader q returned
          shown    \* shown[a]: versions of a ever shown to the public

views == <<asked, begun, stamps, reply, answer, shown>>
rvars == <<vars, views>>

(***************************************************************************)
(* A moment, as far as the order of an article's history can tell: how     *)
(* many of its changes were committed by then.                             *)
(***************************************************************************)
Moment == [a \in Articles |-> row[a].revision]
NotBegun == [a \in Articles |-> 0]

NoReply == [article |-> Free]
NoAnswer == [step |-> 0]

ReadsInit == /\ Init
             /\ asked = [r \in Requests |-> NoCall]
             /\ begun = [p \in Sessions |-> NotBegun]
             /\ stamps = [a \in Articles |-> <<>>]
             /\ reply = [r \in Requests |-> NoReply]
             /\ answer = [q \in Readers |-> NoAnswer]
             /\ shown = [a \in Articles |-> {}]

-----------------------------------------------------------------------------
(***************************************************************************)
(* created_at: the server's default now() is the start of the transaction. *)
(***************************************************************************)
Stamp(p) == stamps' = [a \in Articles |->
  IF history'[a] = history[a] THEN stamps[a] ELSE Append(stamps[a], begun[p][a])]

CreateStamped(a, u) ==
  /\ CreateArticle(a, u)
  /\ stamps' = [stamps EXCEPT ![a] = Append(@, 0)]
  /\ UNCHANGED <<asked, begun, reply, answer, shown>>

(* An assumption about clients: as the README of the service asks of them, *)
(* they take If-Match from an answer, and so know a revision only after    *)
(* its commit.  The server does not check it: expected_revision accepts    *)
(* every positive number.                                                  *)
Known(c) == Exists(c.article) /\ c.ifMatch <= row[c.article].revision

(* What the request schemas accept                                         *)
WellFormed(c) == /\ (c.op = "update") <=> (c.fields # {})
                 /\ (c.op = "schedule") <=> (c.at # 0)

(* get_current_user: the first statement begins the transaction            *)
Begin(r, c) ==
  /\ asked[r] = NoCall /\ reply[r] = NoReply /\ Known(c) /\ WellFormed(c)
  /\ asked' = [asked EXCEPT ![r] = c]
  /\ begun' = [begun EXCEPT ![r] = Moment]
  /\ UNCHANGED <<vars, stamps, reply, answer, shown>>

End(r) == /\ asked' = [asked EXCEPT ![r] = NoCall]
          /\ begun' = [begun EXCEPT ![r] = NotBegun]

Refuse(r) == /\ asked[r] # NoCall /\ call[r] = NoCall
             /\ End(r)
             /\ UNCHANGED <<vars, stamps, reply, answer, shown>>

Load(r) == /\ asked[r] # NoCall /\ Receive(r, asked[r])
           /\ UNCHANGED views

Lock(r) == LockArticle(r) /\ UNCHANGED views

RollBack(r) == /\ Reject(r) \/ Abort(r)
               /\ End(r)
               /\ UNCHANGED <<stamps, reply, answer, shown>>

CommitStamped(r) ==
  LET a == call[r].article
  IN /\ Commit(r)
     /\ End(r) /\ Stamp(r)
     /\ reply' = [reply EXCEPT ![r] = [article |-> a, wrote |-> row'[a]]]
     /\ UNCHANGED <<answer, shown>>

(* db.refresh after the commit, in a transaction of its own, reads the row *)
(* that is committed by then; the answer may also be lost                  *)
Refresh(r) ==
  /\ reply[r] # NoReply
  /\ reply' = [reply EXCEPT ![r] = NoReply]
  /\ UNCHANGED <<vars, asked, begun, stamps, answer, shown>>

Request(r) == \/ \E c \in Call : Begin(r, c)
              \/ Refuse(r) \/ Load(r) \/ Lock(r) \/ RollBack(r)
              \/ CommitStamped(r) \/ Refresh(r)

(***************************************************************************)
(* A poll of the scheduler begins its transaction just before the select.  *)
(* The time it compares with was taken before; it does not pass meanwhile, *)
(* and what is scheduled meanwhile is for later.                           *)
(***************************************************************************)
Polling(s) == begun[s] # NotBegun

BeginPoll(s) == /\ ~Polling(s) /\ Moment # NotBegun
                /\ begun' = [begun EXCEPT ![s] = Moment]
                /\ UNCHANGED <<vars, asked, stamps, reply, answer, shown>>

EndPoll(s) == begun' = [begun EXCEPT ![s] = NotBegun]

Poll(s) ==
  \/ BeginPoll(s)
  \/ Polling(s) /\ SelectSome(s) /\ UNCHANGED views
  \/ /\ PublishDue(s) /\ EndPoll(s) /\ Stamp(s)
     /\ UNCHANGED <<asked, reply, answer, shown>>
  \/ /\ AbortBatch(s) \/ (Polling(s) /\ Held(s) = {} /\ UNCHANGED vars)
     /\ EndPoll(s)
     /\ UNCHANGED <<asked, stamps, reply, answer, shown>>

TickUnpolled == /\ \A s \in Schedulers : Polling(s) => Held(s) # {}
                /\ Tick /\ UNCHANGED views

-----------------------------------------------------------------------------
(* (mutant) the history is loaded before the article                       *)
Statements_HistoryFirst == <<"history", "article", "versions">>

(* get_article(details=True): the article, then one select per collection; *)
(* list_versions stops after the second.                                   *)
Statements == <<"article", "versions", "history">>

Fetched(x, what) ==
  LET a == x.article
  IN [x EXCEPT !.step = @ + 1,
               !.row = IF what = "article" THEN row[a] ELSE @,
               !.texts = IF what = "versions" THEN versions[a] ELSE @,
               !.history = IF what = "history" THEN history[a] ELSE @]

ReadArticle(q) ==
  /\ \/ /\ answer[q] = NoAnswer
        /\ \E a \in Articles :
             /\ Exists(a)
             /\ answer' = [answer EXCEPT ![q] =
                  Fetched([step |-> 0, article |-> a, row |-> NoRow, texts |-> <<>>,
                           history |-> <<>>], Statements[1])]
     \/ /\ answer[q].step \in 1..2
        /\ answer' = [answer EXCEPT ![q] = Fetched(@, Statements[@.step + 1])]
     \/ answer[q] # NoAnswer /\ answer' = [answer EXCEPT ![q] = NoAnswer]
  /\ UNCHANGED <<vars, asked, begun, stamps, reply, shown>>

(* (mutant) the join does not compare the version                          *)
PublicVersions_AnyVersion(a) ==
  IF row[a].status = "published" THEN DOMAIN versions[a] ELSE {}

(* list_public_articles, read_public_article: the join of a published      *)
(* article with its published version                                      *)
PublicVersions(a) ==
  IF row[a].status = "published" THEN DOMAIN versions[a] \cap {row[a].published} ELSE {}

ReadPublic(a) ==
  /\ shown' = [shown EXCEPT ![a] = @ \cup PublicVersions(a)]
  /\ UNCHANGED <<vars, asked, begun, stamps, reply, answer>>

ReadsNext == \/ \E a \in Articles, u \in Users : CreateStamped(a, u)
             \/ \E r \in Requests : Request(r)
             \/ \E s \in Schedulers : Poll(s)
             \/ TickUnpolled
             \/ \E q \in Readers : ReadArticle(q)
             \/ \E a \in Articles : ReadPublic(a)

ReadsSpec == ReadsInit /\ [][ReadsNext]_rvars

-----------------------------------------------------------------------------
(* As long as clients take If-Match from answers (Known), each entry of    *)
(* the history is stamped with a moment after the commit of the entry      *)
(* before it and before its own: ordered by created_at, the start of a     *)
(* transaction, the history is shown in the order of the commits.          *)
HistoryInOrder ==
  \A a \in Articles : /\ Len(stamps[a]) = Len(history[a])
                       /\ \A n \in DOMAIN stamps[a] : stamps[a][n] = n - 1

(* A revision names one state of an article: whoever was shown a row, and  *)
(* finds its revision unchanged, was shown the present row.  A change is   *)
(* answered with a later state than the one it wrote, or with that very    *)
(* one, although the answer is read after the commit.                      *)
Names(x, a) == /\ x.revision <= row[a].revision
               /\ x.revision = row[a].revision => x = row[a]
RevisionNamesState ==
  /\ \A r \in Requests : reply[r] # NoReply => Names(reply[r].wrote, reply[r].article)
  /\ \A q \in Readers : answer[q] # NoAnswer => Names(answer[q].row, answer[q].article)

(* A detail mixed from several moments still holds together: it has the    *)
(* texts that its article names, with the title and summary of the current *)
(* one, and a history that leads to the article's status.                  *)
LeadsTo(h, n, status) ==
  \E i \in 1..n : h[i].to = status /\ \A j \in (i + 1)..n : h[j].to = "none"
DetailHoldsTogether ==
  \A q \in Readers : LET x == answer[q] IN
    x.step = 3 => /\ 1..x.row.current \subseteq DOMAIN x.texts
                  /\ {x.row.approved, x.row.published} \subseteq
                       DOMAIN x.texts \cup {Null}
                  /\ x.row.headline = Copied(x.texts[x.row.current])
                  /\ Len(x.history) >= x.row.revision
                  /\ LeadsTo(x.history, x.row.revision, x.row.status)

(* Of an article the public is ever shown one text only, and that one was  *)
(* approved by an editor, whatever was edited, reviewed and archived.      *)
OnePublicText ==
  \A a \in Articles :
    /\ Cardinality(shown[a]) <= 1
    /\ \A v \in shown[a] : \E i \in DOMAIN history[a] :
         /\ history[a][i].action = "approved" /\ history[a][i].version = v
         /\ history[a][i].actor \in Editors
=============================================================================
