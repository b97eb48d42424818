--------------------------- MODULE ArticleLifecycle ---------------------------
(***************************************************************************)
(* What the editorial workflow of PublishFlow promises about an article,   *)
(* with no sessions, row locks, transactions or clocks: an article is a    *)
(* versioned cell that moves along the editorial graph one revision at a   *)
(* time.  Editorial.tla (HTTP handlers and scheduler over a locked table)  *)
(* is shown to implement it.                                               *)
(***************************************************************************)
EXTENDS Naturals

CONSTANT Articles

VARIABLE article    \* article[a]: what a client can see of article a

vars == <<article>>

(* Of an article: its status, its revision and the numbers of its current, *)
(* its approved and its published version (0: none).                       *)
Item(status, revision, current, approved, published) ==
  [status |-> status, revision |-> revision, current |-> current,
   approved |-> approved, published |-> published]

Absent == Item("absent", 0, 0, 0, 0)

(***************************************************************************)
(* Every change moves the article by exactly one revision; the status      *)
(* moves only along these edges.                                           *)
(***************************************************************************)
Edges == {<<"draft", "in_review">>, <<"changes_requested", "in_review">>,
          <<"in_review", "changes_requested">>, <<"in_review", "approved">>,
          <<"approved", "scheduled">>, <<"published", "archived">>}

Init == article = [a \in Articles |-> Absent]

Create(a) ==
  /\ article[a].status = "absent"
  /\ article' = [article EXCEPT ![a] = Item("draft", 1, 1, 0, 0)]

(* A new text: only of a draft or of a text sent back, never approved.     *)
Rewritten(x) == Item(x.status, x.revision + 1, x.current + 1, 0, x.published)

Edit(a) ==
  /\ article[a].status \in {"draft", "changes_requested"}
  /\ article' = [article EXCEPT ![a] = Rewritten(article[a])]

(* A change of status leaves the text alone; approval names the text.      *)
Turned(x, to) ==
  Item(to, x.revision + 1, x.current,
       IF to = "approved" THEN x.current ELSE x.approved, x.published)

Move(a, to) ==
  /\ <<article[a].status, to>> \in Edges
  /\ article' = [article EXCEPT ![a] = Turned(article[a], to)]

(***************************************************************************)
(* Publication: of one article by an editor, of several by the scheduler.  *)
(* What becomes public is the approved version.                            *)
(***************************************************************************)
Published(x) ==
  Item("published", x.revision + 1, x.current, x.approved, x.approved)

Publish(S) ==
  /\ S # {}
  /\ \A a \in S : article[a].status \in {"approved", "scheduled"}
  /\ article' = [a \in Articles |-> IF a \in S THEN Published(article[a])
                                    ELSE article[a]]

Next ==
  \/ \E a \in Articles : Create(a) \/ Edit(a)
  \/ \E a \in Articles, e \in Edges : Move(a, e[2])
  \/ \E S \in SUBSET Articles : Publish(S)

Spec == Init /\ [][Next]_vars
=============================================================================
