---------------------------- MODULE MigrationProofs ----------------------------
(***************************************************************************)
(* Proofs about ArticleMigration for any number of downgrades, articles,   *)
(* users, requests and schedulers: what the workflow guarantees survives   *)
(* a change of the schema and back.                                        *)
(***************************************************************************)
EXTENDS ArticleMigration, EditorialProofs

LEMMA SameStatuses == Public = ShownStatuses /\ Agreed = AgreedStatuses
BY DEF Public, Agreed, ShownStatuses, AgreedStatuses

(* Two rows with the same columns are the same.                            *)
LEMMA RowsEqual ==
  ASSUME NEW x \in Row, NEW y \in Row, x.status = y.status, x.author = y.author,
         x.revision = y.revision, x.current = y.current, x.approved = y.approved,
         x.published = y.published, x.scheduledAt = y.scheduledAt,
         x.headline = y.headline
  PROVE  x = y
BY DEF Row

LEMMA DowngradedFields ==
  ASSUME NEW x \in Row
  PROVE  LET y == Downgraded(x) IN
         /\ y \in Row /\ y.status = x.status /\ y.author = x.author
         /\ y.current = x.current /\ y.scheduledAt = x.scheduledAt
         /\ y.headline = x.headline
         /\ y.revision = 0 /\ y.approved = Null /\ y.published = Null
BY DEF Downgraded, Row, Null

LEMMA UpgradedFields ==
  ASSUME NEW x \in Row
  PROVE  LET y == Upgraded(x) IN
         /\ y \in Row /\ y.status = x.status /\ y.author = x.author
         /\ y.current = x.current /\ y.scheduledAt = x.scheduledAt
         /\ y.headline = x.headline
         /\ y.revision = (IF x.status = "absent" THEN 0 ELSE 1)
         /\ y.approved = (IF x.status \in Agreed THEN x.current ELSE Null)
         /\ y.published = (IF x.status \in Public THEN x.current ELSE Null)
<1> DEFINE n == IF x.status = "absent" THEN 0 ELSE 1
           m == IF x.status \in Agreed THEN x.current ELSE Null
           k == IF x.status \in Public THEN x.current ELSE Null
           y == [x EXCEPT !.revision = n, !.approved = m, !.published = k]
<1>1. Upgraded(x) = y
  BY DEF Upgraded
<1>2. n \in Nat /\ m \in Nat /\ k \in Nat
  BY DEF Row, Null
<1> HIDE DEF n, m, k
<1>3. /\ y \in Row /\ y.status = x.status /\ y.author = x.author
      /\ y.current = x.current /\ y.scheduledAt = x.scheduledAt
      /\ y.headline = x.headline
      /\ y.revision = n /\ y.approved = m /\ y.published = k
  BY <1>2 DEF Row
<1> HIDE DEF y
<1>4. QED BY <1>1, <1>3 DEF n, m, k

(* The migrations leave a slug that is not in the table without a row.     *)
LEMMA NoRowMigrates == Downgraded(NoRow) = NoRow /\ Upgraded(NoRow) = NoRow
<1>1. /\ NoRow.status = "absent" /\ NoRow.revision = 0
      /\ NoRow.approved = Null /\ NoRow.published = Null
      /\ "absent" \notin Agreed /\ "absent" \notin Public
  BY DEF NoRow, Agreed, Public
<1>2. Downgraded(NoRow) = NoRow
  BY <1>1, NoRowTyped, DowngradedFields, RowsEqual
<1>3. Upgraded(NoRow) = NoRow
  BY <1>1, NoRowTyped, UpgradedFields, RowsEqual
<1>4. QED BY <1>2, <1>3

-----------------------------------------------------------------------------
(* What the later columns are by status and current version, as upgrade    *)
(* fills them in: the handlers keep them so too.                           *)
Derived(x) ==
  /\ x.status # "absent" => x.revision # Null
  /\ x.approved = (IF x.status \in Agreed THEN x.current ELSE Null)
  /\ x.published = (IF x.status \in Public THEN x.current ELSE Null)

(* What the other columns and tables say, under either schema              *)
RowSound(a) ==
  LET x == row[a] IN
    /\ x.status # "absent" => x.current # Null
    /\ (x.scheduledAt # Null) <=> (x.status = "scheduled")
    /\ x.status \in Public => \E n : Publications(a) = {n}
    /\ x.status \notin Public => Publications(a) = {}

Sound == /\ IInv /\ EditorsDecide /\ Blank /\ EditsCompose /\ Evidence
         /\ \A a \in Articles : RowSound(a)

(* Under the earlier schema nobody is at work, and the row before the      *)
(* downgrade, of which the present one is left, was as it should be.       *)
Earlier == /\ Sound /\ Stopped /\ kept \in [Articles -> Row]
           /\ \A a \in Articles : row[a] = Downgraded(kept[a]) /\ Derived(kept[a])

(* The inductive invariant: all that holds of the workflow, or what is     *)
(* left of it without the later columns.                                   *)
MgInv == /\ schema \in {Initial, Versions}
         /\ schema = Versions => Workflow
         /\ schema = Initial => Earlier

-----------------------------------------------------------------------------
(***************************************************************************)
(* What the handlers guarantee is what the tables say without the later    *)
(* columns, and that these can be derived from the status.                 *)
(***************************************************************************)
LEMMA WorkflowSound == Workflow => Sound /\ \A a \in Articles : Derived(row[a])
<1> SUFFICES ASSUME Workflow PROVE Sound /\ \A a \in Articles : Derived(row[a])
  OBVIOUS
<1>1. ASSUME NEW a \in Articles PROVE RowSound(a) /\ Derived(row[a])
  <2>1. /\ Constraints(row[a])
        /\ row[a].status \in Public <=> row[a].published # Null
        /\ row[a].published = Null => Publications(a) = {}
        /\ row[a].published # Null => \E n : Publications(a) = {n}
        /\ row[a].status \notin Agreed => row[a].approved = Null
    BY SameStatuses DEF Workflow, SInv, LInv, ConstraintsHold, OneEvent, Unapproved
  <2>2. RowSound(a)
    BY <2>1 DEF RowSound, Constraints, Checks
  <2>3. Derived(row[a])
    BY <2>1 DEF Derived, Constraints, Checks, Agreed, Public
  <2>4. QED BY <2>2, <2>3
<1>2. QED BY <1>1 DEF Workflow, SInv, LInv, Sound

LEMMA SoundWorkflow == Sound /\ (\A a \in Articles : Derived(row[a])) => Workflow
<1> SUFFICES ASSUME Sound, \A a \in Articles : Derived(row[a]) PROVE Workflow
  OBVIOUS
<1>1. ASSUME NEW a \in Articles
      PROVE  /\ Constraints(row[a])
             /\ row[a].status \in ShownStatuses <=> row[a].published # Null
             /\ row[a].status \notin AgreedStatuses => row[a].approved = Null
  <2>1. RowSound(a) /\ Derived(row[a])
    BY DEF Sound
  <2>2. Constraints(row[a])
    BY <2>1 DEF RowSound, Derived, Constraints, Checks, Agreed, Public
  <2>3. /\ row[a].status \in Public <=> row[a].published # Null
        /\ row[a].status \notin Agreed => row[a].approved = Null
    BY <2>1 DEF RowSound, Derived, Public
  <2>4. QED BY <2>2, <2>3, SameStatuses
<1>2. OneEvent
  BY <1>1, SameStatuses DEF OneEvent, Sound, RowSound
<1>3. ConstraintsHold /\ Unapproved
  BY <1>1 DEF ConstraintsHold, Unapproved
<1>4. QED BY <1>2, <1>3 DEF Workflow, SInv, LInv, Sound

LEMMA SoundWorkflowNext == Sound' /\ (\A a \in Articles : Derived(row[a]))' => Workflow'
<1>1. Sound /\ (\A a \in Articles : Derived(row[a])) => Workflow
  BY SoundWorkflow
<1>2. QED BY <1>1, PTL

(***************************************************************************)
(* A migration while nobody is at work touches no column but the later.    *)
(***************************************************************************)
LEMMA MigratedSound ==
  ASSUME Sound, Stopped, UNCHANGED <<versions, history, outbox, lock, session, call, now>>,
         row' \in [Articles -> Row],
         \A a \in Articles : /\ row'[a].status = row[a].status
                             /\ row'[a].current = row[a].current
                             /\ row'[a].scheduledAt = row[a].scheduledAt
                             /\ row'[a].headline = row[a].headline
                             /\ row[a] = NoRow => row'[a] = NoRow
  PROVE  Sound' /\ Stopped'
<1>1. Stopped'
  BY DEF Stopped
<1>2. IInv'
  <2>1. TypeOK'
    BY DEF Sound, IInv, TypeOK
  <2>2. LockOwnsCopy' /\ CalledExist'
    BY <1>1 DEF Stopped, LockOwnsCopy, CalledExist
  <2>3. QED BY <2>1, <2>2 DEF IInv
<1>3. EditorsDecide'
  BY <1>1 DEF Stopped, EditorsDecide
<1>4. Blank'
  BY DEF Sound, Blank, Exists
<1>5. EditsCompose'
  BY DEF Sound, EditsCompose, Exists
<1>6. Evidence'
  BY DEF Sound, Evidence, Approval
<1>7. (\A a \in Articles : RowSound(a))'
  BY ZenonT(30) DEF Sound, RowSound, Publications
<1>8. QED BY <1>1, <1>2, <1>3, <1>4, <1>5, <1>6, <1>7 DEF Sound

LEMMA DowngradeEarlier == ASSUME Workflow, Downgrade PROVE Earlier'
<1>1. Sound /\ \A a \in Articles : Derived(row[a])
  BY WorkflowSound
<1>2. row \in [Articles -> Row]
  BY <1>1 DEF Sound, IInv, TypeOK
<1>3. row' = [a \in Articles |-> Downgraded(row[a])]
  BY DEF Downgrade
<1>4. row' \in [Articles -> Row]
  BY <1>2, <1>3, DowngradedFields
<1>5. \A a \in Articles : /\ row'[a].status = row[a].status
                          /\ row'[a].current = row[a].current
                          /\ row'[a].scheduledAt = row[a].scheduledAt
                          /\ row'[a].headline = row[a].headline
                          /\ row[a] = NoRow => row'[a] = NoRow
  BY <1>2, <1>3, DowngradedFields, NoRowMigrates
<1>6. Sound' /\ Stopped'
  BY <1>1, <1>4, <1>5, MigratedSound DEF Downgrade
<1>7. /\ kept' \in [Articles -> Row]
      /\ \A a \in Articles : row'[a] = Downgraded(kept'[a]) /\ Derived(kept'[a])
  BY <1>1, <1>2, <1>3 DEF Downgrade
<1>8. QED BY <1>6, <1>7 DEF Earlier

LEMMA UpgradeWorkflow == ASSUME Earlier, Upgrade PROVE Workflow'
<1>1. Sound /\ Stopped /\ row \in [Articles -> Row]
  BY DEF Earlier, Sound, IInv, TypeOK
<1>2. row' = [a \in Articles |-> Upgraded(row[a])]
  BY DEF Upgrade
<1>3. row' \in [Articles -> Row]
  BY <1>1, <1>2, UpgradedFields
<1>4. \A a \in Articles : /\ row'[a].status = row[a].status
                          /\ row'[a].current = row[a].current
                          /\ row'[a].scheduledAt = row[a].scheduledAt
                          /\ row'[a].headline = row[a].headline
                          /\ row[a] = NoRow => row'[a] = NoRow
  BY <1>1, <1>2, UpgradedFields, NoRowMigrates
<1>5. Sound'
  BY <1>1, <1>3, <1>4, MigratedSound DEF Upgrade
<1>6. ASSUME NEW a \in Articles PROVE Derived(row'[a])
  BY <1>1, <1>2, UpgradedFields DEF Derived, Null
<1>7. QED BY <1>5, <1>6, SoundWorkflowNext

LEMMA MigrationStep ==
  ASSUME EditorialAssumption, MgInv, [MigrationNext]_mvars  PROVE MgInv'
<1>1. CASE schema = Versions /\ Next /\ UNCHANGED <<schema, kept, downgrades>>
  BY <1>1, WorkflowNext DEF MgInv, Versions, Initial
<1>2. CASE Downgrade
  BY <1>2, DowngradeEarlier DEF MgInv, Downgrade, Versions, Initial
<1>3. CASE Upgrade
  BY <1>3, UpgradeWorkflow DEF MgInv, Upgrade, Versions, Initial
<1>4. CASE UNCHANGED mvars /\ schema = Versions
  <2>1. [Next]_vars /\ schema' = schema
    BY <1>4 DEF mvars
  <2>2. QED BY <1>4, <2>1, WorkflowNext DEF MgInv, Versions, Initial
<1>5. CASE UNCHANGED mvars /\ schema = Initial
  <2>1. /\ UNCHANGED <<row, kept, schema>>
        /\ UNCHANGED <<versions, history, outbox, lock, session, call, now>>
    BY <1>5 DEF mvars, vars, tables
  <2>2. Earlier /\ row \in [Articles -> Row]
    BY <1>5 DEF MgInv, Earlier, Sound, IInv, TypeOK
  <2>3. Sound' /\ Stopped'
    BY <2>1, <2>2, MigratedSound DEF Earlier
  <2>4. Earlier'
    BY <2>1, <2>2, <2>3 DEF Earlier
  <2>5. QED BY <1>5, <2>1, <2>4 DEF MgInv, Versions, Initial
<1>6. QED BY <1>1, <1>2, <1>3, <1>4, <1>5 DEF MgInv, MigrationNext

(* Under the later schema everything that is proved of the workflow holds, *)
(* under the earlier one what is left of it, after any migrations.         *)
THEOREM MigrationInvariant == MigrationSpec => []MgInv
<1>1. MigrationInit => MgInv
  BY WorkflowInit, EditorialAssumption DEF MigrationInit, MgInv, Versions, Initial
<1>2. MgInv /\ [MigrationNext]_mvars => MgInv'
  BY MigrationStep, EditorialAssumption
<1>3. QED BY <1>1, <1>2, PTL DEF MigrationSpec

(* The constraints that an upgrade creates are met by the rows it fills in.*)
THEOREM UpgradeNeverRefused == MigrationSpec => []UpgradeAccepted
<1>1. MgInv => UpgradeAccepted
  <2> SUFFICES ASSUME MgInv, schema = Initial, NEW a \in Articles
               PROVE  Checks(Upgraded(row[a]))
    BY DEF UpgradeAccepted
  <2>1. row[a] \in Row /\ RowSound(a)
    BY DEF MgInv, Earlier, Sound, IInv, TypeOK
  <2> DEFINE y == Upgraded(row[a])
  <2>2. /\ y.status = row[a].status /\ y.current = row[a].current
        /\ y.revision = (IF row[a].status = "absent" THEN 0 ELSE 1)
        /\ y.approved = (IF row[a].status \in Agreed THEN row[a].current ELSE Null)
        /\ y.published = (IF row[a].status \in Public THEN row[a].current ELSE Null)
    BY <2>1, UpgradedFields
  <2> HIDE DEF y
  <2>3. Checks(y)
    BY <2>1, <2>2 DEF Checks, RowSound, Agreed, Public, Null
  <2>4. QED BY <2>3 DEF y
<1>2. QED BY <1>1, MigrationInvariant, PTL

(* What is public under the later schema was approved by an editor after   *)
(* its last edit and published once, whatever migrations came between.     *)
THEOREM ApprovalSurvives == MigrationSpec => []PublicStillApproved
<1>1. MgInv => PublicStillApproved
  BY EvidenceShown, OneEventCounts DEF MgInv, Workflow, PublicStillApproved
<1>2. QED BY <1>1, MigrationInvariant, PTL

(* A downgrade and the upgrade after it change nothing but the revisions.  *)
THEOREM RoundTrip == MigrationSpec => RoundTripLossless
<1> DEFINE Lossless ==
      schema = Initial /\ schema' = Versions =>
        \A a \in Articles : /\ row'[a] = [kept[a] EXCEPT !.revision = row'[a].revision]
                            /\ Exists(a) => row'[a].revision = 1
<1>1. MgInv /\ [MigrationNext]_mvars => [Lossless]_mvars
  <2> SUFFICES ASSUME MgInv, MigrationNext, schema = Initial, schema' = Versions,
                      NEW a \in Articles
               PROVE  /\ row'[a] = [kept[a] EXCEPT !.revision = row'[a].revision]
                      /\ Exists(a) => row'[a].revision = 1
    OBVIOUS
  <2>1. row' = [b \in Articles |-> Upgraded(row[b])]
    BY DEF MigrationNext, Downgrade, Upgrade, Initial, Versions
  <2> DEFINE x == kept[a]
             y == row'[a]
  <2>2. /\ row[a] \in Row /\ x \in Row
        /\ row[a] = Downgraded(x) /\ Derived(x)
    BY DEF MgInv, Earlier, Sound, IInv, TypeOK
  <2>3. /\ y \in Row /\ y.status = row[a].status /\ y.author = row[a].author
        /\ y.current = row[a].current /\ y.scheduledAt = row[a].scheduledAt
        /\ y.headline = row[a].headline
        /\ y.revision = (IF row[a].status = "absent" THEN 0 ELSE 1)
        /\ y.approved = (IF row[a].status \in Agreed THEN row[a].current ELSE Null)
        /\ y.published = (IF row[a].status \in Public THEN row[a].current ELSE Null)
    BY <2>1, <2>2, UpgradedFields
  <2>4. /\ row[a].status = x.status /\ row[a].author = x.author
        /\ row[a].current = x.current /\ row[a].scheduledAt = x.scheduledAt
        /\ row[a].headline = x.headline
    BY <2>2, DowngradedFields
  <2>5. y.approved = x.approved /\ y.published = x.published
    BY <2>2, <2>3, <2>4 DEF Derived
  <2>6. \A n \in Nat : LET z == [x EXCEPT !.revision = n] IN
          /\ z \in Row /\ z.status = x.status /\ z.author = x.author
          /\ z.revision = n /\ z.current = x.current /\ z.approved = x.approved
          /\ z.published = x.published /\ z.scheduledAt = x.scheduledAt
          /\ z.headline = x.headline
    BY <2>2 DEF Row
  <2>7. y.revision \in Nat
    BY <2>3
  <2> HIDE DEF x, y
  <2>8. y = [x EXCEPT !.revision = y.revision]
    <3> PICK n : n = y.revision
      OBVIOUS
    <3> DEFINE z == [x EXCEPT !.revision = n]
    <3>1. /\ z \in Row /\ z.status = x.status /\ z.author = x.author
          /\ z.revision = n /\ z.current = x.current /\ z.approved = x.approved
          /\ z.published = x.published /\ z.scheduledAt = x.scheduledAt
          /\ z.headline = x.headline
      BY <2>6, <2>7
    <3> HIDE DEF z
    <3>2. y = z
      BY <2>3, <2>4, <2>5, <3>1, RowsEqual
    <3>3. QED BY <3>2 DEF z
  <2>9. Exists(a) => y.revision = 1
    BY <2>3 DEF Exists
  <2>10. QED BY <2>8, <2>9 DEF x, y
<1>2. QED BY <1>1, MigrationInvariant, PTL DEF MigrationSpec, RoundTripLossless

(* The numbered versions and their texts come through the migrations too.  *)
THEOREM EditsSurvive == MigrationSpec => []EditsCompose
<1>1. MgInv => EditsCompose
  BY DEF MgInv, Workflow, Earlier, Sound
<1>2. QED BY <1>1, MigrationInvariant, PTL
=============================================================================
