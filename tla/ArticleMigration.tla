--------------------------- MODULE ArticleMigration ---------------------------
(***************************************************************************)
(* Articles over a change of the schema and back.  The API and the workers *)
(* are stopped, Alembic runs a migration in one transaction, and they are  *)
(* started again with the later schema: revision, approved_version and     *)
(* published_version are dropped by downgrade and filled in by upgrade.    *)
(* Nothing else of the tables is touched.                                  *)
(***************************************************************************)
EXTENDS Editorial

CONSTANT Downgrades   \* how often the schema is downgraded (a bound)

VARIABLES schema,     \* the revision of the schema in alembic_version
          kept,       \* kept[a]: the row before the last downgrade
          downgrades  \* how often the schema was downgraded

mvars == <<vars, schema, kept, downgrades>>

Initial == "20260831_0001"
Versions == "20260927_0002"

(***************************************************************************)
(* A row of the initial schema has no value in the later columns.          *)
(***************************************************************************)
Downgraded(x) == [x EXCEPT !.revision = 0, !.approved = Null, !.published = Null]

Public == {"published", "archived"}
Agreed == {"approved", "scheduled"} \cup Public

(* (mutant) an approved article is taken for public                        *)
Upgraded_EarlyPublic(x) ==
  [x EXCEPT !.revision = IF x.status = "absent" THEN 0 ELSE 1,
            !.approved = IF x.status \in Agreed THEN x.current ELSE Null,
            !.published = IF x.status \in Agreed THEN x.current ELSE Null]

(* (mutant) archived articles are forgotten                                *)
Upgraded_NotArchived(x) ==
  [x EXCEPT !.revision = IF x.status = "absent" THEN 0 ELSE 1,
            !.approved = IF x.status \in Agreed THEN x.current ELSE Null,
            !.published = IF x.status = "published" THEN x.current ELSE Null]

(* The server's default of revision, and the two updates by status         *)
Upgraded(x) ==
  [x EXCEPT !.revision = IF x.status = "absent" THEN 0 ELSE 1,
            !.approved = IF x.status \in Agreed THEN x.current ELSE Null,
            !.published = IF x.status \in Public THEN x.current ELSE Null]

MigrationInit == /\ Init /\ schema = Versions
                 /\ kept = row /\ downgrades = 0

(* No session is open: the operator has stopped the API and the workers    *)
Stopped == /\ \A r \in Requests : call[r] = NoCall
           /\ \A a \in Articles : lock[a] = Free

Downgrade ==
  /\ schema = Versions /\ Stopped
  /\ downgrades < Downgrades /\ downgrades' = downgrades + 1
  /\ schema' = Initial
  /\ kept' = row
  /\ row' = [a \in Articles |-> Downgraded(row[a])]
  /\ UNCHANGED <<versions, history, outbox, lock, session, call, now>>

(* The columns, the updates and the CHECK constraints in one transaction   *)
Upgrade ==
  /\ schema = Initial
  /\ \A a \in Articles : Checks(Upgraded(row[a]))
  /\ schema' = Versions
  /\ row' = [a \in Articles |-> Upgraded(row[a])]
  /\ UNCHANGED <<versions, history, outbox, lock, session, call, now, kept, downgrades>>

MigrationNext == \/ /\ schema = Versions /\ Next
                    /\ UNCHANGED <<schema, kept, downgrades>>
                 \/ Downgrade
                 \/ Upgrade

MigrationSpec == MigrationInit /\ [][MigrationNext]_mvars

-----------------------------------------------------------------------------
(* An upgrade is never refused: the rows it fills in meet the constraints  *)
(* that it creates, whatever state the articles were in.                   *)
UpgradeAccepted ==
  schema = Initial => \A a \in Articles : Checks(Upgraded(row[a]))

(* Back and forth loses no more than the revisions: the status alone says  *)
(* which version was approved and which is public, so that the upgrade     *)
(* fills in what the downgrade dropped and changes nothing else.           *)
RoundTripLossless ==
  [][schema = Initial /\ schema' = Versions =>
       \A a \in Articles : /\ row'[a] = [kept[a] EXCEPT !.revision = row'[a].revision]
                           /\ Exists(a) => row'[a].revision = 1]_mvars

(* What is public after any number of migrations, and of changes between   *)
(* them, was still approved by an editor after its last edit, and is still *)
(* published once.                                                         *)
PublicStillApproved == schema = Versions => PublicIsApproved /\ PublishedOnce
=============================================================================
