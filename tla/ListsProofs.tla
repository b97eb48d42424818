----------------------------- MODULE ListsProofs -----------------------------
(***************************************************************************)
(* Proofs about ArticleLists for any number of articles, clients and any   *)
(* size of a page.  While a client reads, rows are only added, and so the  *)
(* place of an article in the list only grows: what the next page begins   *)
(* after was not skipped.                                                  *)
(***************************************************************************)
EXTENDS ArticleLists, FiniteSetTheorems, TLAPS

Cursor == [step : {"asked", "first", "page", "end"}, editor : BOOLEAN,
           anyStatus : BOOLEAN, offset : Nat, items : SUBSET Articles, total : Nat,
           seen : SUBSET Articles, before : SUBSET Articles]
Born == {a \in Articles : born[a] # 0}

(* A row is stored after its transaction began; few rows were ever born    *)
TypeOK ==
  /\ born \in [Articles -> Nat] /\ IsFiniteSet(Born)
  /\ stored \in SUBSET Born
  /\ matching \in SUBSET stored
  /\ list \in [Clients -> Cursor \cup {Idle}]

(* How many articles come before a in the list that x asks for             *)
Higher(x, a) == {b \in Selected(x) : Above(b, a)}
Place(x, a) == Cardinality(Higher(x, a))

Ahead(x, from, met) == \A a \in x.before \ met : Place(x, a) >= from

(* What the client has not met yet comes after the pages it has read; and  *)
(* as long as there is such an article, the total lies behind these pages. *)
Covered(x) ==
  LET read == x.offset + PageSize
      met == x.seen \cup x.items
  IN /\ x.before \subseteq Selected(x)
     /\ x.step = "asked" => Ahead(x, x.offset, x.seen)
     /\ x.step \in {"first", "page"} => Ahead(x, read, met)
     /\ x.step = "page" /\ ~(x.before \subseteq met) => read < x.total
     /\ x.step = "end" => x.before \subseteq x.seen

Covers == \A c \in Clients : \A x \in Cursor :
            list[c] = x /\ x.anyStatus => Covered(x)

LInv == TypeOK /\ Covers

USE ListsAssumption DEF ListsAssumption

LEMMA SelectedFinite ==
  ASSUME TypeOK, NEW x
  PROVE  /\ Selected(x) \subseteq stored /\ stored \subseteq Articles
         /\ IsFiniteSet(Selected(x)) /\ Cardinality(Selected(x)) \in Nat
<1>1. Selected(x) \subseteq stored /\ stored \subseteq Born /\ Born \subseteq Articles
  BY DEF Selected, TypeOK, Born
<1>2. IsFiniteSet(Selected(x))
  BY <1>1, FS_Subset DEF TypeOK
<1>3. QED BY <1>1, <1>2, FS_CardinalityType

(* The place of an article of the list is a number below the total         *)
LEMMA PlaceBelow ==
  ASSUME TypeOK, NEW x, NEW a \in Articles
  PROVE  /\ IsFiniteSet(Higher(x, a)) /\ Place(x, a) \in Nat
         /\ a \in Selected(x) => Place(x, a) < Cardinality(Selected(x))
<1>1. Higher(x, a) \subseteq Selected(x) /\ IsFiniteSet(Selected(x))
  BY SelectedFinite DEF Higher
<1>2. IsFiniteSet(Higher(x, a)) /\ Place(x, a) \in Nat
  BY <1>1, FS_Subset, FS_CardinalityType DEF Place
<1>3. a \notin Higher(x, a)
  BY DEF Higher, Above, TypeOK
<1>4. ASSUME a \in Selected(x)
      PROVE  Place(x, a) < Cardinality(Selected(x))
  <2>1. Higher(x, a) # Selected(x)
    BY <1>3, <1>4
  <2>2. /\ Cardinality(Higher(x, a)) <= Cardinality(Selected(x))
        /\ Cardinality(Higher(x, a)) # Cardinality(Selected(x))
    BY <1>1, <2>1, FS_Subset
  <2>3. QED BY <1>2, <2>2, SelectedFinite DEF Place
<1>5. QED BY <1>2, <1>4

(* The same of the state after a step                                      *)
LEMMA PlaceAfter ==
  ASSUME NEW x, NEW a \in Articles
  PROVE  TypeOK' => IsFiniteSet(Higher(x, a)') /\ Place(x, a)' \in Nat
<1>1. TypeOK => IsFiniteSet(Higher(x, a)) /\ Place(x, a) \in Nat
  BY PlaceBelow
<1>2. (TypeOK => IsFiniteSet(Higher(x, a)) /\ Place(x, a) \in Nat)'
  BY <1>1, PTL
<1>3. QED BY <1>2

-----------------------------------------------------------------------------
LEMMA TypeNext == ASSUME TypeOK, [Next]_vars PROVE TypeOK'
<1>1. CASE UNCHANGED vars
  BY <1>1 DEF vars, TypeOK, Born
<1>2. ASSUME NEW a \in Articles, BeginCreate(a) PROVE TypeOK'
  <2>1. Now \in Nat /\ Now # 0
    <3>1. Cardinality(Born) \in Nat
      BY FS_CardinalityType DEF TypeOK
    <3>2. QED BY <3>1 DEF Now, Born
  <2> DEFINE n == Now
  <2>2. born[a] = 0 /\ born' = [born EXCEPT ![a] = n]
        /\ stored' = stored /\ matching' = matching /\ list' = list
    BY <1>2 DEF BeginCreate
  <2> HIDE DEF n
  <2>3. born' \in [Articles -> Nat] /\ Born' = Born \cup {a}
    BY <2>1, <2>2 DEF TypeOK, Born, n
  <2>4. IsFiniteSet(Born')
    BY <2>3, FS_AddElement DEF TypeOK
  <2>5. QED BY <2>2, <2>3, <2>4 DEF TypeOK
<1>3. ASSUME NEW a \in Articles, CommitCreate(a) \/ ChangeStatus(a) PROVE TypeOK'
  BY <1>3 DEF CommitCreate, ChangeStatus, TypeOK, Born
<1>4. ASSUME NEW c \in Clients, NEW y \in Cursor \cup {Idle},
             list' = [list EXCEPT ![c] = y], UNCHANGED <<born, stored, matching>>
      PROVE  TypeOK'
  BY <1>4 DEF TypeOK, Born
<1>5. ASSUME NEW c \in Clients, NEW editor \in BOOLEAN, NEW anyStatus \in BOOLEAN,
             Ask(c, editor, anyStatus)
      PROVE  TypeOK'
  <2> DEFINE x == [step |-> "asked", editor |-> editor, anyStatus |-> anyStatus,
                   offset |-> 0, items |-> {}, total |-> 0, seen |-> {}, before |-> {}]
             y == [x EXCEPT !.before = Selected(x)]
  <2>1. Selected(x) \in SUBSET Articles
    BY SelectedFinite
  <2>2. y \in Cursor
    BY <2>1 DEF Cursor
  <2>3. list' = [list EXCEPT ![c] = y] /\ UNCHANGED <<born, stored, matching>>
    BY <1>5 DEF Ask
  <2> HIDE DEF x, y
  <2>4. QED BY <1>4, <2>2, <2>3
<1>6. ASSUME NEW c \in Clients, First(c) \/ Second(c) \/ TurnPage(c) PROVE TypeOK'
  <2> DEFINE x == list[c]
  <2>1. x \in Cursor
    BY <1>6 DEF First, Second, TurnPage, TypeOK, Idle
  <2>2. Page(x) \in SUBSET Articles /\ Cardinality(Selected(x)) \in Nat
    BY SelectedFinite DEF Page
  <2>3. PICK y \in Cursor : list' = [list EXCEPT ![c] = y]
    <3>1. CASE First(c)
      BY <2>1, <2>2, <3>1 DEF First, Fetch, Order, Cursor
    <3>2. CASE Second(c)
      BY <2>1, <2>2, <3>2 DEF Second, Fetch, Order, Cursor
    <3>3. CASE TurnPage(c)
      <4> DEFINE last == x.offset + PageSize >= x.total
                 y == [x EXCEPT !.step = IF last THEN "end" ELSE "asked",
                                !.seen = x.seen \cup x.items,
                                !.offset = IF last THEN x.offset ELSE x.offset + PageSize]
      <4>1. x.offset + PageSize \in Nat
        BY <2>1 DEF Cursor
      <4>2. y \in Cursor
        BY <2>1, <4>1 DEF Cursor
      <4>3. list' = [list EXCEPT ![c] = y]
        BY <3>3 DEF TurnPage
      <4>4. QED BY <4>2, <4>3
    <3>4. QED BY <1>6, <3>1, <3>2, <3>3
  <2>4. QED BY <1>4, <1>6, <2>3 DEF First, Second, TurnPage
<1>7. ASSUME NEW c \in Clients, Close(c) PROVE TypeOK'
  BY <1>4, <1>7 DEF Close
<1>8. QED BY <1>1, <1>2, <1>3, <1>5, <1>6, <1>7 DEF Next

(* A list without a status only grows, and with it every place in it       *)
LEMMA PlaceGrows ==
  ASSUME TypeOK, [Next]_vars, NEW x \in Cursor, x.anyStatus
  PROVE  /\ Selected(x) \subseteq Selected(x)'
         /\ \A a \in Selected(x) : Place(x, a) <= Place(x, a)'
<1>1. TypeOK'
  BY TypeNext
<1>2. stored \subseteq stored' /\ \A b \in stored : born'[b] = born[b]
  <2>1. CASE \E a \in Articles : BeginCreate(a)
    <3> PICK a \in Articles : BeginCreate(a)
      BY <2>1
    <3>1. a \notin stored
      BY DEF BeginCreate, TypeOK, Born
    <3>2. QED BY <3>1 DEF BeginCreate, TypeOK, Born
  <2>2. CASE UNCHANGED born /\ stored \subseteq stored'
    BY <2>2
  <2>3. QED
    BY <2>1, <2>2 DEF Next, vars, CommitCreate, ChangeStatus, Ask, First, Second,
       TurnPage, Close
<1>3. Selected(x) \subseteq Selected(x)'
  BY <1>2 DEF Selected
<1>4. ASSUME NEW a \in Selected(x)
      PROVE  Place(x, a) <= Place(x, a)'
  <2>1. a \in stored /\ a \in Articles
    BY SelectedFinite
  <2>2. Higher(x, a) \subseteq Higher(x, a)'
    <3> SUFFICES ASSUME NEW b \in Higher(x, a) PROVE b \in Higher(x, a)'
      OBVIOUS
    <3>1. b \in Selected(x) /\ b \in stored /\ born[b] > born[a]
      BY SelectedFinite DEF Higher, Above
    <3>2. b \in Selected(x)' /\ born'[b] > born'[a]
      BY <1>2, <1>3, <2>1, <3>1
    <3>3. QED BY <3>2 DEF Higher, Above
  <2>3. IsFiniteSet(Higher(x, a)')
    BY <1>1, <2>1, PlaceAfter
  <2>4. QED BY <2>2, <2>3, FS_Subset DEF Place
<1>5. QED BY <1>3, <1>4

LEMMA CoveredKept ==
  ASSUME TypeOK, [Next]_vars, NEW x \in Cursor, x.anyStatus, Covered(x)
  PROVE  Covered(x)'
<1>1. x.before \subseteq Selected(x) /\ x.before \subseteq Articles
  BY SelectedFinite DEF Covered
<1>2. ASSUME NEW from \in Nat, NEW met, Ahead(x, from, met)
      PROVE  Ahead(x, from, met)'
  <2> SUFFICES ASSUME NEW a \in x.before \ met PROVE Place(x, a)' >= from
    BY DEF Ahead
  <2>1. TypeOK' /\ a \in Articles
    BY <1>1, TypeNext
  <2>2. Place(x, a) \in Nat /\ Place(x, a)' \in Nat
    BY <2>1, PlaceBelow, PlaceAfter
  <2>3. Place(x, a) >= from /\ Place(x, a) <= Place(x, a)'
    BY <1>1, <1>2, PlaceGrows DEF Ahead
  <2>4. QED BY <2>2, <2>3
<1>3. x.offset \in Nat /\ x.offset + PageSize \in Nat
  BY DEF Cursor
<1>4. x.before \subseteq Selected(x)'
  BY <1>1, PlaceGrows
<1>5. QED BY <1>2, <1>3, <1>4 DEF Covered

-----------------------------------------------------------------------------
(* What a client's own steps make of a covered list                        *)
LEMMA CoveredFirst ==
  ASSUME TypeOK, NEW x \in Cursor, x.step = "asked", Covered(x), x.anyStatus,
         NEW y \in Cursor, y = [x EXCEPT !.items = Page(x), !.step = "first"]
  PROVE  Covered(y)
<1>1. /\ Selected(y) = Selected(x) /\ y.before = x.before /\ y.step = "first"
      /\ y.items = Page(x) /\ y.seen = x.seen /\ y.offset = x.offset
  BY DEF Selected, Cursor
<1>2. ASSUME NEW a \in x.before, a \notin x.seen, a \notin Page(x)
      PROVE  Place(y, a) >= x.offset + PageSize
  <2>1. a \in Selected(x) /\ a \in Articles /\ Place(x, a) >= x.offset
    BY <1>2, SelectedFinite DEF Covered, Ahead
  <2>2. Place(x, a) \in Nat /\ x.offset \in Nat /\ Place(y, a) = Place(x, a)
    BY <1>1, <2>1, PlaceBelow DEF Cursor, Place, Higher
  <2>3. ~(Place(x, a) < x.offset + PageSize)
    BY <1>2, <2>1 DEF Page, Place, Higher
  <2>4. QED BY <2>2, <2>3
<1>3. QED BY <1>1, <1>2 DEF Covered, Ahead

LEMMA CoveredSecond ==
  ASSUME TypeOK, NEW x \in Cursor, x.step = "first", Covered(x), x.anyStatus,
         NEW y \in Cursor, y = [x EXCEPT !.total = Cardinality(Selected(x)),
                                         !.step = "page"]
  PROVE  Covered(y)
<1> DEFINE met == x.seen \cup x.items
           read == x.offset + PageSize
<1>1. /\ Selected(y) = Selected(x) /\ y.before = x.before /\ y.step = "page"
      /\ y.items = x.items /\ y.seen = x.seen /\ y.offset = x.offset
      /\ y.total = Cardinality(Selected(x))
  BY DEF Selected, Cursor
<1>2. Ahead(y, read, met)
  BY <1>1 DEF Covered, Ahead, Place, Higher
<1>3. ASSUME NEW a \in x.before, a \notin met PROVE read < y.total
  <2>1. a \in Selected(x) /\ a \in Articles /\ Place(x, a) >= read
    BY <1>3, SelectedFinite DEF Covered, Ahead
  <2>2. Place(x, a) \in Nat /\ Place(x, a) < y.total
    BY <1>1, <2>1, PlaceBelow
  <2>3. read \in Nat /\ y.total \in Nat
    <3>1. x.offset \in Nat
      BY DEF Cursor
    <3>2. QED BY <1>1, <3>1, SelectedFinite
  <2>4. QED BY <2>1, <2>2, <2>3
<1>4. QED BY <1>1, <1>2, <1>3 DEF Covered

LEMMA CoveredTurned ==
  ASSUME TypeOK, NEW x \in Cursor, x.step = "page", Covered(x), x.anyStatus,
         NEW last \in BOOLEAN, last <=> x.offset + PageSize >= x.total,
         NEW y \in Cursor,
         y = [x EXCEPT !.step = IF last THEN "end" ELSE "asked",
                       !.seen = x.seen \cup x.items,
                       !.offset = IF last THEN x.offset ELSE x.offset + PageSize]
  PROVE  Covered(y)
<1> DEFINE met == x.seen \cup x.items
           read == x.offset + PageSize
<1>1. /\ Selected(y) = Selected(x) /\ y.before = x.before
      /\ y.step = (IF last THEN "end" ELSE "asked") /\ y.seen = met
      /\ y.offset = IF last THEN x.offset ELSE read
  BY DEF Selected, Cursor
<1>2. CASE last
  <2>1. ~(read < x.total)
    BY <1>2 DEF Cursor
  <2>2. x.before \subseteq met
    BY <2>1 DEF Covered
  <2>3. QED BY <1>1, <1>2, <2>2 DEF Covered
<1>3. CASE ~last
  BY <1>1, <1>3 DEF Covered, Ahead, Place, Higher
<1>4. QED BY <1>2, <1>3

LEMMA CoversNext == ASSUME LInv, [Next]_vars PROVE Covers'
<1> SUFFICES ASSUME NEW c \in Clients, NEW y \in Cursor, list'[c] = y, y.anyStatus
             PROVE  Covered(y)'
  BY DEF Covers
<1>1. TypeOK /\ Covers
  BY DEF LInv
<1>2. CASE list'[c] = list[c]
  BY <1>1, <1>2, CoveredKept DEF Covers
<1>3. ASSUME Covered(y), UNCHANGED <<born, stored, matching>> PROVE Covered(y)'
  BY <1>3 DEF Covered, Ahead, Place, Higher, Selected, Above
<1>4. ASSUME NEW editor \in BOOLEAN, NEW anyStatus \in BOOLEAN, Ask(c, editor, anyStatus)
      PROVE  Covered(y)'
  <2> DEFINE x == [step |-> "asked", editor |-> editor, anyStatus |-> anyStatus,
                   offset |-> 0, items |-> {}, total |-> 0, seen |-> {}, before |-> {}]
  <2>1. y = [x EXCEPT !.before = Selected(x)]
    BY <1>1, <1>4 DEF Ask, TypeOK
  <2>2. /\ y.before = Selected(y) /\ y.step = "asked" /\ y.offset = 0
    BY <2>1 DEF Selected
  <2>3. \A a \in y.before : Place(y, a) \in Nat
    BY <1>1, PlaceBelow, SelectedFinite, <2>2
  <2>4. Covered(y)
    BY <2>2, <2>3 DEF Covered, Ahead
  <2>5. QED BY <1>3, <1>4, <2>4 DEF Ask
<1>5. ASSUME First(c) \/ Second(c) \/ TurnPage(c) PROVE Covered(y)'
  <2> PICK x : x = list[c]
    OBVIOUS
  <2>1. x \in Cursor
    BY <1>1, <1>5 DEF First, Second, TurnPage, TypeOK, Idle
  <2>2. UNCHANGED <<born, stored, matching>>
    BY <1>5 DEF First, Second, TurnPage
  <2>3. CASE First(c)
    <3>1. y = [x EXCEPT !.items = Page(x), !.step = "first"] /\ x.step = "asked"
      BY <1>1, <2>1, <2>3 DEF First, Fetch, Order, TypeOK, Cursor
    <3>2. x.anyStatus /\ Covered(x)
      BY <1>1, <2>1, <3>1 DEF Covers, Cursor
    <3>3. QED BY <1>1, <1>3, <2>1, <2>2, <3>1, <3>2, CoveredFirst
  <2>4. CASE Second(c)
    <3>1. /\ y = [x EXCEPT !.total = Cardinality(Selected(x)), !.step = "page"]
          /\ x.step = "first"
      BY <1>1, <2>1, <2>4 DEF Second, Fetch, Order, TypeOK, Cursor
    <3>2. x.anyStatus /\ Covered(x)
      BY <1>1, <2>1, <3>1 DEF Covers, Cursor
    <3>3. QED BY <1>1, <1>3, <2>1, <2>2, <3>1, <3>2, CoveredSecond
  <2>5. CASE TurnPage(c)
    <3> DEFINE last == x.offset + PageSize >= x.total
    <3>1. /\ y = [x EXCEPT !.step = IF last THEN "end" ELSE "asked",
                           !.seen = x.seen \cup x.items,
                           !.offset = IF last THEN x.offset ELSE x.offset + PageSize]
          /\ x.step = "page" /\ last \in BOOLEAN
      BY <1>1, <2>1, <2>5 DEF TurnPage, TypeOK, Cursor
    <3>2. x.anyStatus /\ Covered(x)
      BY <1>1, <2>1, <3>1 DEF Covers, Cursor
    <3>3. QED BY <1>1, <1>3, <2>1, <2>2, <3>1, <3>2, CoveredTurned
  <2>6. QED BY <1>5, <2>3, <2>4, <2>5
<1>6. CASE Close(c)
  <2>1. y = Idle
    BY <1>1, <1>6 DEF Close, TypeOK
  <2>2. Idle \notin Cursor
    BY DEF Idle, Cursor
  <2>3. QED BY <2>1, <2>2
<1>7. QED
  <2>1. CASE \E d \in Clients \ {c} : \/ \E editor, anyStatus \in BOOLEAN : Ask(d, editor, anyStatus)
                                      \/ First(d) \/ Second(d) \/ TurnPage(d) \/ Close(d)
    BY <1>1, <1>2, <2>1 DEF Ask, First, Second, TurnPage, Close, TypeOK
  <2>2. CASE UNCHANGED list
    BY <1>2, <2>2
  <2>3. QED
    BY <1>4, <1>5, <1>6, <2>1, <2>2 DEF Next, vars, BeginCreate, CommitCreate, ChangeStatus

(* Types, and what each client's pages have covered so far                 *)
THEOREM InductiveInvariant == Spec => []LInv
<1>1. Init => LInv
  <2> SUFFICES ASSUME Init PROVE LInv
    OBVIOUS
  <2>1. Born = {}
    BY DEF Init, Born
  <2>2. IsFiniteSet(Born)
    BY <2>1, FS_EmptySet
  <2>3. Idle \notin Cursor
    BY DEF Idle, Cursor
  <2>4. QED BY <2>1, <2>2, <2>3 DEF Init, LInv, TypeOK, Covers
<1>2. LInv /\ [Next]_vars => LInv'
  BY TypeNext, CoversNext DEF LInv
<1>3. QED BY <1>1, <1>2, PTL DEF Spec

(* Paging by offset through the list without a status, to the total that   *)
(* came with the last page, shows every article that was there at first.   *)
THEOREM PagesMissNothing == Spec => []NothingMissed
<1>1. LInv => NothingMissed
  <2> SUFFICES ASSUME LInv, NEW c \in Clients, list[c].step = "end", list[c].anyStatus
               PROVE  list[c].before \subseteq list[c].seen
    BY DEF NothingMissed
  <2>1. list[c] \in Cursor
    BY DEF LInv, TypeOK, Idle
  <2>2. QED BY <2>1 DEF LInv, Covers, Covered
<1>2. QED BY <1>1, InductiveInvariant, PTL
=============================================================================
