---------------------------- MODULE ArticleLists ----------------------------
(***************************************************************************)
(* The list of articles, page by page.  A page is the newest articles by   *)
(* created_at from an offset on, and comes with a total that is counted    *)
(* in a second statement.  Meanwhile articles are created, and they may    *)
(* commit in another order than that of created_at, the start of their     *)
(* transactions, which are taken to be distinct; others change status.     *)
(* Rows are never deleted.                                                 *)
(***************************************************************************)
EXTENDS Naturals, Sequences, FiniteSets

CONSTANTS Articles,
          Mine,      \* those of the author who lists
          Clients,   \* clients that page through the list
          PageSize   \* their limit

ASSUME ListsAssumption == Mine \subseteq Articles /\ PageSize \in Nat \ {0}

VARIABLES born,      \* born[a]: created_at of a, or 0
          stored,    \* the committed rows
          matching,  \* those with the status that clients may ask for
          list       \* list[c]: how far client c has come

vars == <<born, stored, matching, list>>

Idle == [step |-> "idle"]

Init == /\ born = [a \in Articles |-> 0]
        /\ stored = {} /\ matching = {}
        /\ list = [c \in Clients |-> Idle]

Now == Cardinality({a \in Articles : born[a] # 0}) + 1

(* create_article, by hand or by an import: begin, and commit              *)
BeginCreate(a) == /\ born[a] = 0
                  /\ born' = [born EXCEPT ![a] = Now]
                  /\ UNCHANGED <<stored, matching, list>>

CommitCreate(a) == /\ born[a] # 0 /\ a \notin stored
                   /\ stored' = stored \cup {a}
                   /\ UNCHANGED <<born, matching, list>>

ChangeStatus(a) == /\ a \in stored
                   /\ matching' = (matching \ {a}) \cup ({a} \ matching)
                   /\ UNCHANGED <<born, stored, list>>

-----------------------------------------------------------------------------
(* What the statements of list_articles and count_articles select: all     *)
(* articles for an editor, an author's own, with or without a status       *)
Selected(x) == {a \in stored : /\ x.editor \/ a \in Mine
                               /\ x.anyStatus \/ a \in matching}

(* (mutant) the list is sorted by status first                             *)
Above_ByStatus(a, b) ==
  IF (a \in matching) = (b \in matching) THEN born[a] > born[b] ELSE a \in matching

Above(a, b) == born[a] > born[b]   \* order_by(created_at.desc())

(* offset and limit                                                        *)
Page(x) == LET S == Selected(x)
               place(a) == Cardinality({b \in S : Above(b, a)})
           IN {a \in S : place(a) >= x.offset /\ place(a) < x.offset + PageSize}

Ask(c, editor, anyStatus) ==
  LET x == [step |-> "asked", editor |-> editor, anyStatus |-> anyStatus, offset |-> 0,
            items |-> {}, total |-> 0, seen |-> {}, before |-> {}]
  IN /\ list[c] = Idle
     /\ list' = [list EXCEPT ![c] = [x EXCEPT !.before = Selected(x)]]
     /\ UNCHANGED <<born, stored, matching>>

Order_CountFirst == <<"count", "items">>   \* (mutant) the total is counted first
Order == <<"items", "count">>

Fetch(x, what) == [x EXCEPT !.items = IF what = "items" THEN Page(x) ELSE @,
                            !.total = IF what = "count" THEN Cardinality(Selected(x)) ELSE @]

First(c) == /\ list[c].step = "asked"
            /\ list' = [list EXCEPT ![c] = [Fetch(@, Order[1]) EXCEPT !.step = "first"]]
            /\ UNCHANGED <<born, stored, matching>>

Second(c) == /\ list[c].step = "first"
             /\ list' = [list EXCEPT ![c] = [Fetch(@, Order[2]) EXCEPT !.step = "page"]]
             /\ UNCHANGED <<born, stored, matching>>

(* The client (external) goes on until its pages reach the total           *)
TurnPage(c) ==
  LET x == list[c]
      last == x.offset + PageSize >= x.total
  IN /\ x.step = "page"
     /\ list' = [list EXCEPT ![c] =
          [x EXCEPT !.step = IF last THEN "end" ELSE "asked",
                    !.seen = @ \cup x.items,
                    !.offset = IF last THEN @ ELSE @ + PageSize]]
     /\ UNCHANGED <<born, stored, matching>>

Close(c) == /\ list[c].step = "end"
            /\ list' = [list EXCEPT ![c] = Idle]
            /\ UNCHANGED <<born, stored, matching>>

Next == \/ \E a \in Articles : BeginCreate(a) \/ CommitCreate(a) \/ ChangeStatus(a)
        \/ \E c \in Clients : \/ \E editor, anyStatus \in BOOLEAN : Ask(c, editor, anyStatus)
                              \/ First(c) \/ Second(c) \/ TurnPage(c) \/ Close(c)

Spec == Init /\ [][Next]_vars

-----------------------------------------------------------------------------
(* A client who turns all pages of the list without a status misses no     *)
(* article that was there when it began, although pages are cut by offset, *)
(* rows are inserted before, between and within them, and the total that   *)
(* tells it where to stop is another statement than the page.              *)
NothingMissed ==
  \A c \in Clients : list[c].step = "end" /\ list[c].anyStatus =>
    list[c].before \subseteq list[c].seen

=============================================================================
